---- MODULE Spec2Model ----
(***************************************************************************)
(* A model of the helm-unittest report parser (src/utils/parser.py).       *)
(*                                                                         *)
(* A Python str handed to TestResultParser.parse is a sequence of tokens:  *)
(* single characters and XML tags.  Attribute values and element text are  *)
(* sequences of one-character strings, so that strip(), lower(), "in" and  *)
(* endswith() are computed character by character.  Seconds (Python        *)
(* floats) are fixed-point integers, in hundredths.                        *)
(*                                                                         *)
(* The tools around the parser (src/tools) have their own variables and    *)
(* their own specifications: SpecRun for _run_unittest_internal,           *)
(* SpecValidate for validate_schema, SpecWalk for get_tests, SpecServer    *)
(* for the Server singleton of src/utils/mcp.py.  SpecCalls runs parse on  *)
(* one parser from several threads, statement by statement.                *)
(***************************************************************************)
EXTENDS Integers, Sequences, FiniteSets, TLC

VARIABLES fs, report_type, test_result, outcome, pc,
          is_temp, output_file,
          schema_cache, network, validation, requested,
          walk, position, test_files, attempted,
          _instance, _initialized, _lock, servers, fastmcps, threads,
          lists, calls

\* _run_unittest_internal's locals
runVars == <<is_temp, output_file>>

\* validate_schema: the lru_cache of _get_schema, the network it fetches
\* the schema from, and what the call returned
validateVars == <<schema_cache, network, validation, requested>>

\* get_tests: the files os.walk yields, the loop's position in them, the
\* list being built, and the calls made to get_test_from_file
walkVars == <<walk, position, test_files, attempted>>

\* Server (src/utils/mcp.py): the class attributes, the Server objects and
\* the FastMCP objects made so far, and each thread's place in Server()
serverVars == <<_instance, _initialized, _lock, servers, fastmcps, threads>>

\* parse called from several threads: the list objects made so far (a
\* test_cases local is a reference to one of them) and each call's locals
callVars == <<lists, calls>>

\* what the parser's own steps leave alone
toolVars == <<runVars, validateVars, walkVars, serverVars, callVars>>

besideRun == <<validateVars, walkVars, serverVars, callVars>>

besideValidate == <<runVars, walkVars, serverVars, callVars>>

besideWalk == <<runVars, validateVars, serverVars, callVars>>

besideServer == <<runVars, validateVars, walkVars, callVars>>

besideCalls == <<runVars, validateVars, walkVars, serverVars>>

vars == <<fs, report_type, test_result, outcome, pc, toolVars>>

(***************************************************************************)
(* Strings.                                                                *)
(***************************************************************************)
NoAttrs == [a \in {} |-> <<>>]

Chr(c) == [k |-> "chr", v |-> c, attrs |-> NoAttrs]

Open(tag, attrs) == [k |-> "open", v |-> tag, attrs |-> attrs]

Close(tag) == [k |-> "close", v |-> tag, attrs |-> NoAttrs]

Text(cs) == [i \in 1..Len(cs) |-> Chr(cs[i])]

Elem(tag, attrs, text, kids) ==
  <<Open(tag, attrs)>> \o Text(text) \o kids \o <<Close(tag)>>

Whitespace == {" ", "\n", "\t", "\r"}

IsSpaceChar(c) == c \in Whitespace

IsSpaceTok(t) == t.k = "chr" /\ t.v \in Whitespace

\* str.strip(): drop the leading and the trailing whitespace.
Strip(s, Sp(_)) ==
  LET keep == {i \in DOMAIN s : ~Sp(s[i])}
  IN IF keep = {} THEN <<>>
     ELSE LET lo == CHOOSE i \in keep : \A j \in keep : i <= j
              hi == CHOOSE i \in keep : \A j \in keep : j <= i
          IN SubSeq(s, lo, hi)

UpperCase ==
  <<"A", "B", "C", "D", "E", "F", "G", "H", "I", "J", "K", "L", "M",
    "N", "O", "P", "Q", "R", "S", "T", "U", "V", "W", "X", "Y", "Z">>

LowerCase ==
  <<"a", "b", "c", "d", "e", "f", "g", "h", "i", "j", "k", "l", "m",
    "n", "o", "p", "q", "r", "s", "t", "u", "v", "w", "x", "y", "z">>

LowerChar(c) ==
  IF \E i \in DOMAIN UpperCase : UpperCase[i] = c
  THEN LowerCase[CHOOSE i \in DOMAIN UpperCase : UpperCase[i] = c]
  ELSE c

\* str.lower() of a sequence of characters.
Lower(cs) == [i \in 1..Len(cs) |-> LowerChar(cs[i])]

\* sub in s, for sequences of characters.
Contains(sub, s) ==
  \E i \in 1..(Len(s) - Len(sub) + 1) : SubSeq(s, i, i + Len(sub) - 1) = sub

\* The characters a token stands for: c in token.
TokHasChar(t, c) ==
  CASE t.k = "chr" -> t.v = c
    [] t.k = "close" -> c \in {"<", "/", ">"}
    [] t.k = "open" ->
         \/ c \in {"<", ">"}
         \/ \E a \in DOMAIN t.attrs : \E i \in DOMAIN t.attrs[a] : t.attrs[a][i] = c

\* c in test_result.
HasChar(s, c) == \E i \in DOMAIN s : TokHasChar(s[i], c)

RECURSIVE SumOver(_, _)
SumOver(S, f) ==
  IF S = {} THEN 0
  ELSE LET x == CHOOSE y \in S : TRUE IN f[x] + SumOver(S \ {x}, f)

\* len() of the text of one token: <tag a="v">, </tag>, or one character.
TokLen(t) ==
  CASE t.k = "chr" -> 1
    [] t.k = "close" -> Len(t.v) + 3
    [] t.k = "open" ->
         Len(t.v) + 2
         + SumOver(DOMAIN t.attrs, [a \in DOMAIN t.attrs |-> Len(a) + Len(t.attrs[a]) + 4])

StrLen(s) == SumOver(DOMAIN s, [i \in DOMAIN s |-> TokLen(s[i])])

\* test_result.lower().endswith('.xml')
EndsWithXml(s) ==
  /\ Len(s) >= 4
  /\ \A i \in (Len(s) - 3)..Len(s) : s[i].k = "chr"
  /\ Lower([i \in 1..4 |-> s[Len(s) - 4 + i].v]) = <<".", "x", "m", "l">>

(***************************************************************************)
(* xml.etree.ElementTree: the parse of a string into a table of elements   *)
(* in document order, and the searches the adapters use.                   *)
(***************************************************************************)
XmlInit == [nodes |-> <<>>, stack |-> <<>>, done |-> FALSE, ok |-> TRUE]

XmlFail(st) == [st EXCEPT !.ok = FALSE]

XmlStep(st, t) ==
  LET depth == Len(st.stack)
      top == IF depth = 0 THEN 0 ELSE st.stack[depth]
  IN CASE t.k = "chr" ->
            IF depth = 0
            THEN IF t.v \in Whitespace THEN st ELSE XmlFail(st)
            ELSE IF st.nodes[top].sealed THEN st
                 ELSE [st EXCEPT !.nodes[top].text = @ \o <<t.v>>]
       [] t.k = "open" ->
            IF depth = 0 /\ st.done THEN XmlFail(st)
            ELSE LET n == Len(st.nodes) + 1
                     e == [tag |-> t.v, parent |-> top, attrs |-> t.attrs,
                           text |-> <<>>, sealed |-> FALSE]
                     old == IF depth = 0 THEN st.nodes
                            ELSE [st.nodes EXCEPT ![top].sealed = TRUE]
                 IN [st EXCEPT !.nodes = Append(old, e), !.stack = Append(@, n)]
       [] t.k = "close" ->
            IF depth = 0 \/ st.nodes[top].tag # t.v THEN XmlFail(st)
            ELSE [st EXCEPT !.stack = SubSeq(@, 1, depth - 1),
                            !.done = (depth = 1)]

RECURSIVE XmlFeed(_, _, _)
XmlFeed(s, i, st) ==
  IF i > Len(s) \/ ~st.ok THEN st ELSE XmlFeed(s, i + 1, XmlStep(st, s[i]))

\* ET.fromstring / ET.parse(...).getroot(): ok is FALSE for ET.ParseError.
XMLParse(s) ==
  LET st == XmlFeed(s, 1, XmlInit)
      good == st.ok /\ st.done /\ st.stack = <<>>
  IN [ok |-> good, nodes |-> IF good THEN st.nodes ELSE <<>>]

Root == 1

\* Element.get(a, d)
Get(e, a, d) == IF a \in DOMAIN e.attrs THEN e.attrs[a] ELSE d

\* Element.get(a) is truthy: present and not the empty string.
Truthy(e, a) == a \in DOMAIN e.attrs /\ e.attrs[a] # <<>>

Indices(nodes) == [j \in 1..Len(nodes) |-> j]

RECURSIVE IsDesc(_, _, _)
IsDesc(nodes, j, i) ==
  /\ j > i
  /\ nodes[j].parent # 0
  /\ (nodes[j].parent = i \/ IsDesc(nodes, nodes[j].parent, i))

\* e.findall('tag'): the children of element i with that tag, in document order.
FindAll(nodes, i, tag) ==
  SelectSeq(Indices(nodes), LAMBDA j : nodes[j].parent = i /\ nodes[j].tag = tag)

\* e.findall('.//tag'): the descendants of element i (never i itself).
FindAllDesc(nodes, i, tag) ==
  SelectSeq(Indices(nodes), LAMBDA j : nodes[j].tag = tag /\ IsDesc(nodes, j, i))

\* e.find('tag'): the first such child, 0 for None.
Find(nodes, i, tag) ==
  LET c == FindAll(nodes, i, tag) IN IF c = <<>> THEN 0 ELSE c[1]

\* e.find('.//tag'): the first such descendant, 0 for None.
FindDesc(nodes, i, tag) ==
  LET c == FindAllDesc(nodes, i, tag) IN IF c = <<>> THEN 0 ELSE c[1]

(***************************************************************************)
(* int() and float() of an attribute value.  The grammar is an optional    *)
(* sign and decimal digits (with one optional point for float); the        *)
(* values the model feeds them are of that form or plainly non-numeric.    *)
(***************************************************************************)
Digits == <<"0", "1", "2", "3", "4", "5", "6", "7", "8", "9">>

IsDigit(c) == \E i \in DOMAIN Digits : Digits[i] = c

DigitVal(c) == (CHOOSE i \in DOMAIN Digits : Digits[i] = c) - 1

RECURSIVE DecVal(_)
DecVal(cs) ==
  IF cs = <<>> THEN 0
  ELSE 10 * DecVal(SubSeq(cs, 1, Len(cs) - 1)) + DigitVal(cs[Len(cs)])

AllDigits(cs) == \A i \in DOMAIN cs : IsDigit(cs[i])

Unsigned(cs) == IF cs # <<>> /\ cs[1] \in {"-", "+"} THEN Tail(cs) ELSE cs

Sign(cs) == IF cs # <<>> /\ cs[1] = "-" THEN -1 ELSE 1

\* int(x): ok is FALSE for ValueError.
ParseInt(x) ==
  LET cs == Strip(x, IsSpaceChar)
      u == Unsigned(cs)
      good == u # <<>> /\ AllDigits(u)
  IN [ok |-> good, v |-> IF good THEN Sign(cs) * DecVal(u) ELSE 0]

\* float(x) in hundredths of a second: ok is FALSE for ValueError.
ParseFloat(x) ==
  LET cs == Strip(x, IsSpaceChar)
      u == Unsigned(cs)
      dots == {i \in DOMAIN u : u[i] = "."}
      dot == IF dots = {} THEN Len(u) + 1 ELSE CHOOSE i \in dots : \A j \in dots : i <= j
      ip == SubSeq(u, 1, dot - 1)
      fp == SubSeq(u, dot + 1, Len(u))
      good == AllDigits(ip) /\ AllDigits(fp) /\ Len(ip) + Len(fp) > 0
      f2 == SubSeq(fp \o <<"0", "0">>, 1, 2)
  IN [ok |-> good, v |-> IF good THEN Sign(cs) * (100 * DecVal(ip) + DecVal(f2)) ELSE 0]

(***************************************************************************)
(* The filesystem: the entry at each path, and TestResultParser._get_root. *)
(***************************************************************************)
NoEntry == [type |-> "none", content |-> <<>>]

DirEntry == [type |-> "dir", content |-> <<>>]

FileEntry(content) == [type |-> "file", content |-> content]

\* Path('') is the current directory.
PathEntry(files, p) ==
  IF p \in DOMAIN files THEN files[p]
  ELSE IF p = <<>> THEN DirEntry ELSE NoEntry

PathExists(files, p) == PathEntry(files, p).type # "none"

PathIsFile(files, p) == PathEntry(files, p).type = "file"

Io(op, arg) == [op |-> op, arg |-> arg]

PathMax == 4096

StartsWithLt(s) ==
  LET stripped_result == Strip(s, IsSpaceTok)
  IN stripped_result # <<>> /\ stripped_result[1].k # "chr"

\* Mutant: a path must have both a separator and the extension.
IsLikelyPathBoth(s) ==
  /\ ~HasChar(s, "\n")
  /\ (HasChar(s, "/") \/ HasChar(s, "\\")) /\ EndsWithXml(s)

IsLikelyPath(s) ==
  /\ ~HasChar(s, "\n")
  /\ (HasChar(s, "/") \/ HasChar(s, "\\") \/ EndsWithXml(s))

\* Mutant: a document that does not parse is taken for an empty one.
RootOfLenient(doc, io) ==
  [kind |-> "root",
   nodes |-> IF doc.ok THEN doc.nodes
             ELSE <<[tag |-> "", parent |-> 0, attrs |-> NoAttrs, text |-> <<>>,
                     sealed |-> FALSE]>>,
   io |-> io]

RootOf(doc, io) ==
  [kind |-> IF doc.ok THEN "root" ELSE "ParseError", nodes |-> doc.nodes, io |-> io]

\* Mutant: the path itself is parsed, not the file at it.
ReadFileAsString(files, s) == XMLParse(s)

\* ET.parse(test_result)
ReadFile(files, s) == XMLParse(PathEntry(files, s).content)

GetRoot(files, s) ==
  LET probe == ~StartsWithLt(s) /\ StrLen(s) < PathMax
      is_file == probe /\ PathExists(files, s) /\ PathIsFile(files, s)
      stat == IF ~probe THEN <<>>
              ELSE IF PathExists(files, s)
                   THEN <<Io("exists", s), Io("is_file", s)>>
                   ELSE <<Io("exists", s)>>
  IN IF is_file
     THEN RootOf(ReadFile(files, s), Append(stat, Io("ET.parse", s)))
     ELSE IF StartsWithLt(s)
     THEN RootOf(XMLParse(s), Append(stat, Io("ET.fromstring", s)))
     ELSE IF IsLikelyPath(s)
     THEN [kind |-> "FileNotFoundError", nodes |-> <<>>, io |-> stat]
     ELSE RootOf(XMLParse(s), Append(stat, Io("ET.fromstring", s)))

(***************************************************************************)
(* The values of src/utils/dtos.py and the literals of the adapters.       *)
(***************************************************************************)
Passed == <<"p", "a", "s", "s", "e", "d">>

Failed == <<"f", "a", "i", "l", "e", "d">>

Error == <<"e", "r", "r", "o", "r">>

Skipped == <<"s", "k", "i", "p", "p", "e", "d">>

Unknown == <<"U", "n", "k", "n", "o", "w", "n">>

UnknownCollection == Unknown \o <<" ", "C", "o", "l", "l", "e", "c", "t", "i", "o", "n">>

UnknownTest == Unknown \o <<" ", "T", "e", "s", "t">>

Zero == <<"0">>

ZeroFloat == <<"0", ".", "0">>

\* message: str | None
None == [present |-> FALSE, text |-> <<>>]

Some(cs) == [present |-> TRUE, text |-> cs]

TestCaseResult(name, suite, result, time, message) ==
  [name |-> name, suite |-> suite, result |-> result, time |-> time, message |-> message]

\* The locals of an adapter; err is TRUE once a ValueError has been raised.
Acc0 ==
  [err |-> FALSE, total |-> 0, passed |-> 0, failed |-> 0, skipped |-> 0,
   errors |-> 0, time |-> 0, cases |-> <<>>]

Raised(acc) == [acc EXCEPT !.err = TRUE]

TestResultSummary(acc) ==
  [total |-> acc.total, passed |-> acc.passed, failed |-> acc.failed,
   skipped |-> acc.skipped, errors |-> acc.errors, time |-> acc.time,
   test_cases |-> acc.cases]

\* A for loop whose body may raise.
RECURSIVE ForEach(_, _, _, _)
ForEach(body(_, _), acc, s, i) ==
  IF i > Len(s) \/ acc.err THEN acc ELSE ForEach(body, body(acc, s[i]), s, i + 1)

(***************************************************************************)
(* TestResultParser._parse_junit                                           *)
(***************************************************************************)
\* The child that decides a testcase: failure, else error, else skipped.
JunitDecider(failure, error, skipped) ==
  IF failure # 0 THEN failure ELSE IF error # 0 THEN error ELSE skipped

\* Mutant: error is looked at before failure.
JunitStatusErrorFirst(failure, error, skipped) ==
  IF error # 0 THEN Error
  ELSE IF failure # 0 THEN Failed
  ELSE IF skipped # 0 THEN Skipped
  ELSE Passed

JunitStatus(failure, error, skipped) ==
  IF failure # 0 THEN Failed
  ELSE IF error # 0 THEN Error
  ELSE IF skipped # 0 THEN Skipped
  ELSE Passed

\* x.get('message') or x.text, then .strip() if truthy else None
\* Mutant: a message attribute decides whenever it is present, even empty.
JunitMessageAttrPresent(nodes, child) ==
  IF child = 0 THEN None
  ELSE LET tc_message == IF "message" \in DOMAIN nodes[child].attrs
                         THEN nodes[child].attrs["message"]
                         ELSE nodes[child].text
       IN IF tc_message = <<>> THEN None ELSE Some(Strip(tc_message, IsSpaceChar))

JunitMessage(nodes, child) ==
  IF child = 0 THEN None
  ELSE LET tc_message == IF Truthy(nodes[child], "message")
                         THEN nodes[child].attrs["message"]
                         ELSE nodes[child].text
       IN IF tc_message = <<>> THEN None ELSE Some(Strip(tc_message, IsSpaceChar))

\* Mutant: a skipped case is not counted in the total.
JunitTallySkipsUncounted(acc, tc_result) ==
  [acc EXCEPT !.failed = IF tc_result = Failed THEN @ + 1 ELSE @,
              !.errors = IF tc_result = Error THEN @ + 1 ELSE @,
              !.skipped = IF tc_result = Skipped THEN @ + 1 ELSE @,
              !.passed = IF tc_result = Passed THEN @ + 1 ELSE @,
              !.total = IF tc_result = Skipped THEN @ ELSE @ + 1]

JunitTally(acc, tc_result) ==
  [acc EXCEPT !.failed = IF tc_result = Failed THEN @ + 1 ELSE @,
              !.errors = IF tc_result = Error THEN @ + 1 ELSE @,
              !.skipped = IF tc_result = Skipped THEN @ + 1 ELSE @,
              !.passed = IF tc_result = Passed THEN @ + 1 ELSE @,
              !.total = @ + 1]

JunitCase(nodes, suite_name, acc, tc) ==
  LET tc_name == Get(nodes[tc], "name", Unknown)
      tc_time == ParseFloat(Get(nodes[tc], "time", ZeroFloat))
      failure == Find(nodes, tc, "failure")
      error == Find(nodes, tc, "error")
      skipped == Find(nodes, tc, "skipped")
      tc_result == JunitStatus(failure, error, skipped)
      tc_message == JunitMessage(nodes, JunitDecider(failure, error, skipped))
  IN IF ~tc_time.ok THEN Raised(acc)
     ELSE [JunitTally(acc, tc_result) EXCEPT
             !.cases = Append(@, TestCaseResult(tc_name, suite_name, tc_result,
                                                tc_time.v, tc_message))]

\* Mutant: the suite times are added even when the root gave the total.
JunitSuiteAlwaysTimed(nodes, acc, suite) ==
  LET suite_name == Get(nodes[suite], "name", Unknown)
      suite_time == ParseFloat(Get(nodes[suite], "time", <<>>))
      timed == IF Truthy(nodes[suite], "time")
               THEN IF suite_time.ok THEN [acc EXCEPT !.time = @ + suite_time.v]
                    ELSE Raised(acc)
               ELSE acc
  IN ForEach(LAMBDA a, tc : JunitCase(nodes, suite_name, a, tc), timed,
             FindAllDesc(nodes, suite, "testcase"), 1)

JunitSuite(nodes, acc, suite) ==
  LET suite_name == Get(nodes[suite], "name", Unknown)
      from_suites == nodes[Root].tag # "testsuites" \/ ~Truthy(nodes[Root], "time")
      suite_time == ParseFloat(Get(nodes[suite], "time", <<>>))
      timed == IF from_suites /\ Truthy(nodes[suite], "time")
               THEN IF suite_time.ok THEN [acc EXCEPT !.time = @ + suite_time.v]
                    ELSE Raised(acc)
               ELSE acc
  IN ForEach(LAMBDA a, tc : JunitCase(nodes, suite_name, a, tc), timed,
             FindAllDesc(nodes, suite, "testcase"), 1)

JunitSuites(nodes) ==
  IF nodes[Root].tag = "testsuites" THEN FindAll(nodes, Root, "testsuite")
  ELSE IF nodes[Root].tag = "testsuite" THEN <<Root>>
  ELSE FindAllDesc(nodes, Root, "testsuite")

\* The counters before the loop over the suites: all zero, but for the
\* total time a testsuites root gives.
JunitStart(nodes) ==
  LET root_time == ParseFloat(Get(nodes[Root], "time", <<>>))
  IN IF nodes[Root].tag = "testsuites" /\ Truthy(nodes[Root], "time")
     THEN IF root_time.ok THEN [Acc0 EXCEPT !.time = root_time.v]
          ELSE Raised(Acc0)
     ELSE Acc0

JunitWalk(nodes) ==
  ForEach(LAMBDA a, suite : JunitSuite(nodes, a, suite), JunitStart(nodes),
          JunitSuites(nodes), 1)

(***************************************************************************)
(* TestResultParser._parse_xunit                                           *)
(***************************************************************************)
Pass == <<"p", "a", "s", "s">>

Fail == <<"f", "a", "i", "l">>

Skip == <<"s", "k", "i", "p">>

XunitStatus(test_result_status) ==
  LET normalized_result == Lower(test_result_status)
  IN IF normalized_result = Pass THEN Passed
     ELSE IF normalized_result = Fail THEN Failed
     ELSE IF normalized_result = Skip THEN Skipped
     ELSE normalized_result

XunitMessage(nodes, test) ==
  LET failure_elem == FindDesc(nodes, test, "failure")
      message_elem == IF failure_elem = 0 THEN 0 ELSE Find(nodes, failure_elem, "message")
  IN IF message_elem # 0 /\ nodes[message_elem].text # <<>>
     THEN Some(Strip(nodes[message_elem].text, IsSpaceChar))
     ELSE None

XunitTest(nodes, collection_name, acc, test) ==
  LET test_name == Get(nodes[test], "name", UnknownTest)
      test_result_status == Get(nodes[test], "result", Unknown)
      test_time == ParseFloat(Get(nodes[test], "time", ZeroFloat))
  IN IF ~test_time.ok THEN Raised(acc)
     ELSE [acc EXCEPT
             !.cases = Append(@, TestCaseResult(test_name, collection_name,
                                                XunitStatus(test_result_status),
                                                test_time.v, XunitMessage(nodes, test)))]

XunitCollection(nodes, acc, collection) ==
  LET collection_name == Get(nodes[collection], "name", UnknownCollection)
  IN ForEach(LAMBDA a, test : XunitTest(nodes, collection_name, a, test), acc,
             FindAllDesc(nodes, collection, "test"), 1)

XunitAssemblies(nodes) == FindAllDesc(nodes, Root, "assembly")

\* total_tests += ..., ..., total_time += ...
XunitAdd(acc, total, passed, failed, skipped, errors, time) ==
  [acc EXCEPT !.total = @ + total, !.passed = @ + passed, !.failed = @ + failed,
              !.skipped = @ + skipped, !.errors = @ + errors, !.time = @ + time]

XunitAssembly(nodes, acc, assembly) ==
  LET e == nodes[assembly]
      total == ParseInt(Get(e, "total", Zero))
      passed == ParseInt(Get(e, "passed", Zero))
      failed == ParseInt(Get(e, "failed", Zero))
      skipped == ParseInt(Get(e, "skipped", Zero))
      errors == ParseInt(Get(e, "errors", Zero))
      time == ParseFloat(Get(e, "time", ZeroFloat))
  IN IF ~(total.ok /\ passed.ok /\ failed.ok /\ skipped.ok /\ errors.ok /\ time.ok)
     THEN Raised(acc)
     ELSE ForEach(LAMBDA a, collection : XunitCollection(nodes, a, collection),
                  XunitAdd(acc, total.v, passed.v, failed.v, skipped.v, errors.v, time.v),
                  FindAllDesc(nodes, assembly, "collection"), 1)

XunitWalk(nodes) ==
  ForEach(LAMBDA a, assembly : XunitAssembly(nodes, a, assembly), Acc0,
          XunitAssemblies(nodes), 1)

(***************************************************************************)
(* TestResultParser._parse_nunit                                           *)
(***************************************************************************)
NunitStatus(tc_result) ==
  LET normalized_result == Lower(tc_result)
  IN IF Contains(<<"s", "u", "c", "c", "e", "s", "s">>, normalized_result)
        \/ Contains(Pass, normalized_result)
     THEN Passed
     ELSE IF Contains(Fail, normalized_result) THEN Failed
     ELSE IF Contains(Error, normalized_result) THEN Error
     ELSE IF Contains(Skip, normalized_result)
             \/ Contains(<<"i", "g", "n", "o", "r", "e">>, normalized_result)
     THEN Skipped
     ELSE normalized_result

\* Mutant: the text of the failure element itself is never the message.
NunitMessageNoFallback(nodes, tc) ==
  LET failure == Find(nodes, tc, "failure")
      message_elem == IF failure = 0 THEN 0 ELSE Find(nodes, failure, "message")
  IN IF message_elem # 0 /\ nodes[message_elem].text # <<>>
     THEN Some(Strip(nodes[message_elem].text, IsSpaceChar))
     ELSE None

NunitMessage(nodes, tc) ==
  LET failure == Find(nodes, tc, "failure")
      message_elem == IF failure = 0 THEN 0 ELSE Find(nodes, failure, "message")
  IN IF failure = 0 THEN None
     ELSE IF message_elem # 0 /\ nodes[message_elem].text # <<>>
     THEN Some(Strip(nodes[message_elem].text, IsSpaceChar))
     ELSE IF nodes[failure].text # <<>>
     THEN Some(Strip(nodes[failure].text, IsSpaceChar))
     ELSE None

NunitCase(nodes, suite_name, acc, tc) ==
  LET tc_name == Get(nodes[tc], "name", Unknown)
      tc_time == ParseFloat(Get(nodes[tc], "time", ZeroFloat))
      tc_result == Get(nodes[tc], "result", Unknown)
  IN IF ~tc_time.ok THEN Raised(acc)
     ELSE [acc EXCEPT
             !.cases = Append(@, TestCaseResult(tc_name, suite_name, NunitStatus(tc_result),
                                                tc_time.v, NunitMessage(nodes, tc)))]

\* acc.time is suites_sum_time here.
NunitSuite(nodes, acc, suite) ==
  LET suite_name == Get(nodes[suite], "name", Unknown)
      suite_time == ParseFloat(Get(nodes[suite], "time", <<>>))
      timed == IF Truthy(nodes[suite], "time") /\ suite_time.ok
               THEN [acc EXCEPT !.time = @ + suite_time.v]
               ELSE acc
      results == Find(nodes, suite, "results")
  IN IF results = 0 THEN timed
     ELSE ForEach(LAMBDA a, tc : NunitCase(nodes, suite_name, a, tc), timed,
                  FindAll(nodes, results, "test-case"), 1)

NunitSuites(nodes) == FindAllDesc(nodes, Root, "test-suite")

\* Mutant: no fallback to the suites.
NunitTimeNoFallback(total_time, suites_sum_time) == total_time

\* total_time after the loop: the root's, or suites_sum_time when that is 0.0.
NunitTime(total_time, suites_sum_time) ==
  IF total_time = 0 THEN suites_sum_time ELSE total_time

\* Mutant: not-run is left out.
NunitSkippedNoNotRun(skipped, ignored, not_run) == skipped + ignored

\* int(skipped) + int(ignored) + int(not-run)
NunitSkipped(skipped, ignored, not_run) == skipped + ignored + not_run

\* Mutant: the root's attributes and the suites are read under any root.
NunitWalkAnyRoot(nodes) ==
  LET root == nodes[Root]
      total == ParseInt(Get(root, "total", Zero))
      walked == ForEach(LAMBDA a, suite : NunitSuite(nodes, a, suite), Acc0,
                        NunitSuites(nodes), 1)
  IN IF ~total.ok THEN Raised(Acc0)
     ELSE [walked EXCEPT !.total = total.v, !.passed = total.v]

\* int() accepts every count attribute of the root.
NunitCountsOk(nodes) ==
  \A a \in {"total", "errors", "failures", "skipped", "ignored", "not-run"} :
    ParseInt(Get(nodes[Root], a, Zero)).ok

\* The summary's counts and time, from the root's attributes and from the
\* suites walked.
NunitFinish(nodes, walked) ==
  LET root == nodes[Root]
      total == ParseInt(Get(root, "total", Zero))
      errors == ParseInt(Get(root, "errors", Zero))
      failures == ParseInt(Get(root, "failures", Zero))
      skipped == ParseInt(Get(root, "skipped", Zero))
      ignored == ParseInt(Get(root, "ignored", Zero))
      not_run == ParseInt(Get(root, "not-run", Zero))
      time_val == ParseFloat(Get(root, "time", Zero))
      total_time == IF time_val.ok THEN time_val.v ELSE 0
      total_skipped == NunitSkipped(skipped.v, ignored.v, not_run.v)
  IN [walked EXCEPT
        !.total = total.v, !.errors = errors.v, !.failed = failures.v,
        !.skipped = total_skipped,
        !.passed = total.v - failures.v - errors.v - total_skipped,
        !.time = NunitTime(total_time, walked.time)]

NunitWalk(nodes) ==
  LET walked == ForEach(LAMBDA a, suite : NunitSuite(nodes, a, suite), Acc0,
                        NunitSuites(nodes), 1)
  IN IF nodes[Root].tag # "test-results" THEN Acc0
     ELSE IF ~NunitCountsOk(nodes) THEN Raised(Acc0)
     ELSE NunitFinish(nodes, walked)

(***************************************************************************)
(* TestResultParser.parse: what one call does, as the outcome the caller   *)
(* sees and the accesses (io) the call made.                               *)
(***************************************************************************)
NoSummary == TestResultSummary(Acc0)

Raise(kind, msg, io) == [kind |-> kind, msg |-> msg, summary |-> NoSummary, io |-> io]

Adapt(r, acc) ==
  IF acc.err THEN Raise("ValueError", "invalid literal", r.io)
  ELSE [kind |-> "summary", msg |-> "", summary |-> TestResultSummary(acc), io |-> r.io]

Resolve(files, s, Walk(_)) ==
  LET r == GetRoot(files, s)
  IN IF r.kind = "FileNotFoundError" THEN Raise(r.kind, "File not found", r.io)
     ELSE IF r.kind = "ParseError" THEN Raise(r.kind, "", r.io)
     ELSE Adapt(r, Walk(r.nodes))

ParseJunit(files, s) == Resolve(files, s, JunitWalk)

ParseXunit(files, s) == Resolve(files, s, XunitWalk)

ParseNunit(files, s) == Resolve(files, s, NunitWalk)

\* Mutant: the input is resolved before the selector is looked at.
ParseResolvesFirst(rt, files, s) ==
  LET r == GetRoot(files, s)
  IN IF rt = "junit" THEN ParseJunit(files, s)
     ELSE IF rt = "xunit" THEN ParseXunit(files, s)
     ELSE IF rt = "nunit" THEN ParseNunit(files, s)
     ELSE Raise("ValueError", "Unsupported report type", r.io)

Parse(rt, files, s) ==
  IF rt = "junit" THEN ParseJunit(files, s)
  ELSE IF rt = "xunit" THEN ParseXunit(files, s)
  ELSE IF rt = "nunit" THEN ParseNunit(files, s)
  ELSE Raise("ValueError", "Unsupported report type", <<>>)

(***************************************************************************)
(* The report documents and strings the calls are made with.               *)
(***************************************************************************)
A1(k, v) == k :> v

T_05 == <<"0", ".", "5">>

T_15 == <<"1", ".", "5">>

T_clock == <<"2", "0", ":", "1", "0", ":", "1", "1">>

N_t1 == <<"t", "1">>

N_s1 == <<"s", "1">>

Leaf(tag) == Elem(tag, NoAttrs, <<>>, <<>>)

\* One document that every dialect finds cases in.
Hybrid ==
  Elem("test-results",
       [total |-> <<"2">>, failures |-> <<"1">>, time |-> T_15], <<>>,
       Elem("testsuite", [name |-> N_s1, time |-> T_05], <<>>,
            Elem("testcase", [name |-> N_t1], <<>>, Leaf("failure")))
       \o Elem("assembly", [total |-> <<"1">>, passed |-> <<"1">>, time |-> T_05], <<>>,
               Elem("collection", NoAttrs, <<>>,
                    Elem("test", [name |-> N_t1, result |-> <<"P", "a", "s", "s">>], <<>>, <<>>)))
       \o Elem("test-suite", [name |-> N_s1, time |-> T_05], <<>>,
               Elem("results", NoAttrs, <<>>,
                    Elem("test-case", [name |-> N_t1, result |-> <<"F", "a", "i", "l">>],
                         <<>>, <<>>))))

\* An unclosed tag.
Unclosed == <<Open("testsuites", NoAttrs)>>

\* A non-numeric case time.
BadTime ==
  Elem("testsuite", NoAttrs, <<>>, Elem("testcase", [time |-> <<"x">>], <<>>, <<>>))

NotXml == Text(<<"N", "o", "t", " ", "X", "M", "L">>)

P_xml == Text(<<"r", ".", "x", "m", "l">>)

P_out == Text(<<"o", "u", "t">>)

\* A file name that starts with '<' once trimmed.
P_lt == <<Chr(" "), Open("a", NoAttrs)>>

FsPaths == {P_xml, P_out, P_lt}

FileContents == {Hybrid, Unclosed, BadTime, NotXml, P_xml}

FileInputs ==
  FsPaths
  \cup {<<>>, NotXml, Unclosed, Hybrid, <<Chr("\n")>> \o Hybrid \o <<Chr("\n")>>,
        Hybrid \o Text(<<"x">>),
        Text(<<"a", "/", "b">>), Text(<<"a", "\\", "b">>),
        Text(<<"x", ".", "X", "M", "L">>), Text(<<"a", "/", "b", "\n", "c">>),
        Text(<<" ", "o", "u", "t">>), NotXml \o Hybrid}

MaxCases == 2

MaxSuites == 2

RECURSIVE Flat(_)
Flat(ss) == IF ss = <<>> THEN <<>> ELSE Head(ss) \o Flat(Tail(ss))

\* The sequences over S of length at most n.
SeqsUpTo(S, n) == UNION {[1..k -> S] : k \in 0..n}

Name(letter, i) == <<letter, Digits[i + 1]>>

\* An attribute that may be absent: None stands for no attribute.
Absent == <<"None">>

Attr(k, v) == IF v = Absent THEN NoAttrs ELSE k :> v

(* JUnit: testcases with every order of failure/error/skipped children. *)
JunitKids ==
  {<<>>, <<"failure">>, <<"error">>, <<"skipped">>,
   <<"failure", "error">>, <<"error", "failure">>,
   <<"error", "skipped">>, <<"skipped", "error">>,
   <<"failure", "skipped">>, <<"skipped", "failure">>,
   <<"failure", "error", "skipped">>, <<"skipped", "error", "failure">>}

JunitCaseDoc(i, kids) ==
  Elem("testcase", [name |-> Name("t", i), time |-> T_05], <<>>,
       Flat([j \in DOMAIN kids |-> Leaf(kids[j])]))

JunitCaseDocs ==
  {Elem("testsuite", [name |-> N_s1], <<>>,
        Flat([i \in DOMAIN cs |-> JunitCaseDoc(i, cs[i])]))
     : cs \in SeqsUpTo(JunitKids, MaxCases)}

(* JUnit: the three kinds of root, suite and root times, nested suites. *)
SuiteShapes ==
  {[time |-> Absent, nest |-> FALSE], [time |-> T_05, nest |-> FALSE],
   [time |-> T_15, nest |-> TRUE], [time |-> <<"x">>, nest |-> FALSE]}

JunitSuiteDoc(i, sh) ==
  Elem("testsuite", Attr("name", Name("s", i)) @@ Attr("time", sh.time), <<>>,
       JunitCaseDoc(1, <<>>)
       \o (IF sh.nest
           THEN Elem("testsuite", [name |-> <<"i", "n">>, time |-> T_05], <<>>,
                     JunitCaseDoc(2, <<"error">>))
           ELSE <<>>)
       \o JunitCaseDoc(3, <<"failure">>))

JunitStructDocs ==
  {Elem(root, Attr("time", rtime), <<>>,
        Flat([i \in DOMAIN shs |-> JunitSuiteDoc(i, shs[i])]))
     : root \in {"testsuites", "testsuite", "report"},
       rtime \in {Absent, <<"2">>, <<>>},
       shs \in SeqsUpTo(SuiteShapes, MaxSuites)}
  \cup {Elem("testsuites", [time |-> T_clock], <<>>, JunitSuiteDoc(1, [time |-> T_05, nest |-> FALSE]))}

(* The raw result tokens of xUnit tests and NUnit test-cases. *)
ResultTokens ==
  {<<"P", "a", "s", "s">>, <<"F", "a", "i", "l">>, <<"S", "k", "i", "p">>,
   <<"S", "u", "c", "c", "e", "s", "s">>, <<"F", "a", "i", "l", "u", "r", "e">>,
   <<"E", "r", "r", "o", "r">>, <<"I", "g", "n", "o", "r", "e", "d">>,
   <<"S", "k", "i", "p", "p", "e", "d">>, <<"P", "A", "S", "S">>,
   <<"B", "y", "p", "a", "s", "s">>,
   <<"P", "a", "s", "s", "F", "a", "i", "l">>,
   <<"E", "r", "r", "o", "r", "F", "a", "i", "l">>,
   <<"S", "k", "i", "p", "E", "r", "r", "o", "r">>,
   <<"I", "n", "c", "o", "n", "c", "l", "u", "s", "i", "v", "e">>,
   <<"n", "o", "t", "r", "u", "n">>, <<>>, Absent}

CaseShapes ==
  {[result |-> <<"P", "a", "s", "s">>, time |-> T_05],
   [result |-> <<"F", "a", "i", "l">>, time |-> Absent],
   [result |-> <<"S", "u", "c", "c", "e", "s", "s">>, time |-> T_15],
   [result |-> <<"S", "k", "i", "p">>, time |-> <<"x">>]}

CaseDoc(tag, i, sh) ==
  Elem(tag, [name |-> Name("t", i)] @@ Attr("result", sh.result) @@ Attr("time", sh.time),
       <<>>, <<>>)

CaseDocs(tag, shs) == Flat([i \in DOMAIN shs |-> CaseDoc(tag, i, shs[i])])

(* xUnit: assembly attributes against the tests actually present. *)
AssemblyAttrs ==
  {NoAttrs,
   [total |-> <<"2">>, passed |-> <<"1">>, failed |-> <<"1">>, time |-> <<"1", ".", "2">>],
   [total |-> <<"7">>, passed |-> <<"1">>, failed |-> <<"2">>, skipped |-> <<"3">>,
    errors |-> <<"1">>, time |-> T_05],
   [total |-> <<"x">>]}

AssemblyDoc(attrs, shs) ==
  Elem("assembly", attrs, <<>>,
       Elem("collection", [name |-> <<"c", "1">>], <<>>, CaseDocs("test", shs)))

XunitCaseDocs ==
  {Elem("assemblies", NoAttrs, <<>>, AssemblyDoc(attrs, shs))
     : attrs \in AssemblyAttrs, shs \in SeqsUpTo(CaseShapes, MaxCases)}

XunitTokenDocs ==
  {Elem("assemblies", NoAttrs, <<>>,
        AssemblyDoc([total |-> <<"1">>], <<[result |-> tok, time |-> Absent]>>))
     : tok \in ResultTokens}

XunitStructDocs ==
  {Elem("assemblies", NoAttrs, <<>>,
        Flat([i \in DOMAIN as |-> AssemblyDoc(as[i], <<[result |-> <<"P", "a", "s", "s">>,
                                                         time |-> T_05]>>)]))
     : as \in SeqsUpTo(AssemblyAttrs, MaxSuites)}
  \cup {AssemblyDoc(attrs, <<[result |-> <<"P", "a", "s", "s">>, time |-> T_05]>>)
          : attrs \in AssemblyAttrs}
  \cup {Elem("assemblies", NoAttrs, <<>>,
             Elem("assembly", [total |-> <<"2">>, time |-> T_05], <<>>,
                  AssemblyDoc([total |-> <<"1">>, time |-> T_15],
                              <<[result |-> <<"F", "a", "i", "l">>, time |-> T_05]>>)))}

(* NUnit: root counts, root and suite times, nested suites. *)
NunitSuiteDoc(i, sh, shs) ==
  Elem("test-suite", Attr("name", Name("s", i)) @@ Attr("time", sh.time), <<>>,
       Elem("results", NoAttrs, <<>>,
            (IF sh.nest
             THEN Elem("test-suite", [name |-> <<"i", "n">>, time |-> T_05], <<>>,
                       Elem("results", NoAttrs, <<>>,
                            CaseDoc("test-case", 9, [result |-> <<"P", "a", "s", "s">>,
                                                     time |-> T_05])))
             ELSE <<>>)
            \o CaseDocs("test-case", shs)))

NunitCounts ==
  {Attr("total", t) @@ Attr("failures", f) @@ Attr("errors", e)
     @@ Attr("skipped", s) @@ Attr("ignored", i) @@ Attr("not-run", n)
     : t \in {Absent, <<"9">>, <<"1">>}, f \in {Absent, <<"1">>}, e \in {Absent, <<"2">>},
       s \in {Absent, <<"1">>}, i \in {Absent, <<"2">>}, n \in {Absent, <<"3">>}}
  \cup {[total |-> <<"x">>], [total |-> <<"3">>, failures |-> <<"2", ".", "0">>],
        [total |-> <<"3">>, skipped |-> <<"3">>], [total |-> <<"0">>, ignored |-> <<>>]}

OneSuite(shs) == NunitSuiteDoc(1, [time |-> T_05, nest |-> FALSE], shs)

NunitCountDocs ==
  {Elem("test-results", attrs @@ [time |-> <<"2", ".", "0">>], <<>>,
        OneSuite(<<[result |-> <<"P", "a", "s", "s">>, time |-> T_05]>>))
     : attrs \in NunitCounts}

NunitCaseDocs ==
  {Elem("test-results", attrs, <<>>, OneSuite(shs))
     : attrs \in {[total |-> <<"3">>, failures |-> <<"1">>, skipped |-> <<"1">>],
                  [total |-> <<"1">>, errors |-> <<"2">>, time |-> T_clock]},
       shs \in SeqsUpTo(CaseShapes, MaxCases)}

NunitTokenDocs ==
  {Elem("test-results", [total |-> <<"1">>], <<>>,
        OneSuite(<<[result |-> tok, time |-> Absent]>>))
     : tok \in ResultTokens}

NunitTimeDocs ==
  {Elem(root, [total |-> <<"2">>] @@ Attr("time", rtime), <<>>,
        Flat([i \in DOMAIN shs |-> NunitSuiteDoc(i, shs[i], <<[result |-> <<"F", "a", "i", "l">>,
                                                               time |-> T_05]>>)]))
     : root \in {"test-results", "test-run"},
       rtime \in {Absent, <<"2", ".", "0">>, <<"0">>, T_clock, <<>>},
       shs \in SeqsUpTo(SuiteShapes, MaxSuites)}

(* Messages: failure children with and without text, message attribute and *)
(* nested message element, under cases of every status.                    *)
Texts == {<<>>, <<"b">>, <<" ", "b", " ">>, <<" ">>}

FailureDoc(tag, attr, text, nested) ==
  Elem(tag, Attr("message", attr), text,
       IF nested = Absent THEN <<>> ELSE Elem("message", NoAttrs, nested, <<>>))

FailureDocs(tags, attrs) ==
  {<<>>} \cup {FailureDoc(tag, attr, text, nested)
                 : tag \in tags, attr \in attrs, text \in Texts,
                   nested \in Texts \cup {Absent}}

JunitMessageDocs ==
  {Elem("testsuite", [name |-> N_s1], <<>>,
        Elem("testcase", [name |-> N_t1], <<>>, kid))
     : kid \in FailureDocs({"failure", "error", "skipped"}, Texts \cup {Absent})}

XunitMessageDocs ==
  {Elem("assemblies", NoAttrs, <<>>,
        Elem("assembly", [total |-> <<"1">>], <<>>,
             Elem("collection", [name |-> <<"c", "1">>], <<>>,
                  Elem("test", [name |-> N_t1, result |-> tok], <<>>, kid))))
     : tok \in {<<"P", "a", "s", "s">>, <<"F", "a", "i", "l">>, <<"S", "k", "i", "p">>},
       kid \in FailureDocs({"failure"}, {Absent})}

NunitMessageDocs ==
  {Elem("test-results", [total |-> <<"1">>], <<>>,
        Elem("test-suite", [name |-> N_s1], <<>>,
             Elem("results", NoAttrs, <<>>,
                  Elem("test-case", [name |-> N_t1, result |-> tok], <<>>, kid))))
     : tok \in {<<"S", "u", "c", "c", "e", "s", "s">>, <<"F", "a", "i", "l", "u", "r", "e">>,
                <<"I", "g", "n", "o", "r", "e", "d">>},
       kid \in FailureDocs({"failure"}, {Absent})}

DocInputs ==
  JunitCaseDocs \cup JunitStructDocs \cup JunitMessageDocs
  \cup XunitCaseDocs \cup XunitTokenDocs \cup XunitStructDocs \cup XunitMessageDocs
  \cup NunitCountDocs \cup NunitCaseDocs \cup NunitTokenDocs \cup NunitTimeDocs
  \cup NunitMessageDocs
  \cup {Unclosed, NotXml, <<>>, <<Chr(" ")>> \o Hybrid}

Selectors == {"junit", "xunit", "nunit", "invalid", "JUnit"}

MaxFiles == 1

MaxThreads == 2

MaxCallers == 2

Callers == 1..MaxCallers

MaxLists == 2

Threads == 1..MaxThreads

(***************************************************************************)
(* The state machine: a parser instance, the calls made on it, and the     *)
(* files other programs leave in the filesystem between calls.             *)
(***************************************************************************)
NoOutcome == Raise("none", "", <<>>)

EmptyFs == [p \in FsPaths |-> NoEntry]

\* output_file: Optional[str] = None
NoPath == <<>>

\* no tool is running
\* nothing validated yet
NoValidation == [kind |-> "none"]

\* nothing walked yet
NoWalk == [pattern |-> <<>>, files |-> <<>>]

\* A thread outside Server(): 0 stands for None and for no object.
NoThread == [pc |-> "idle", self |-> 0, made |-> 0, result |-> 0]

\* A thread outside parse.  test_cases is the list its local refers to, 0
\* before the list is made.
NoCall ==
  [pc |-> "idle", test_result |-> <<>>, adapter |-> "none", nodes |-> <<>>,
   io |-> <<>>, counters |-> Acc0, test_cases |-> 0, todo |-> <<>>,
   outcome |-> NoOutcome]

ToolsIdle ==
  /\ is_temp = FALSE
  /\ output_file = NoPath
  /\ schema_cache = "none"
  /\ network = "suite"
  /\ validation = NoValidation
  /\ requested = FALSE
  /\ walk = NoWalk
  /\ position = 0
  /\ test_files = <<>>
  /\ attempted = <<>>
  /\ _instance = 0
  /\ _initialized = FALSE
  /\ _lock = 0
  /\ servers = <<>>
  /\ fastmcps = 0
  /\ threads = [t \in Threads |-> NoThread]
  /\ lists = <<>>
  /\ calls = [t \in Callers |-> NoCall]

Init ==
  /\ fs = EmptyFs
  /\ report_type \in Selectors
  /\ test_result = <<>>
  /\ outcome = NoOutcome
  /\ pc = "idle"
  /\ ToolsIdle

\* TestResultParser(report_type)
Construct(rt) ==
  /\ pc = "idle"
  /\ report_type' = rt
  /\ UNCHANGED <<fs, test_result, outcome, pc, toolVars>>

\* parser.parse(test_result), to the point where it returns or raises
ParseCall(s) ==
  /\ pc = "idle"
  /\ test_result' = s
  /\ outcome' = Parse(report_type, fs, s)
  /\ pc' = "returned"
  /\ UNCHANGED <<fs, report_type, toolVars>>

\* the caller takes the summary or the exception
Return ==
  /\ pc = "returned"
  /\ pc' = "idle"
  /\ test_result' = <<>>
  /\ outcome' = NoOutcome
  /\ UNCHANGED <<fs, report_type, toolVars>>

Existing(files) == {p \in DOMAIN files : files[p].type # "none"}

\* a report (or anything else) is written at path p
WriteFile(p, content) ==
  /\ pc = "idle"
  /\ Cardinality(Existing(fs) \cup {p}) <= MaxFiles
  /\ fs' = [fs EXCEPT ![p] = FileEntry(content)]
  /\ UNCHANGED <<report_type, test_result, outcome, pc, toolVars>>

MakeDir(p) ==
  /\ pc = "idle"
  /\ fs[p].type = "none"
  /\ Cardinality(Existing(fs)) < MaxFiles
  /\ fs' = [fs EXCEPT ![p] = DirEntry]
  /\ UNCHANGED <<report_type, test_result, outcome, pc, toolVars>>

Remove(p) ==
  /\ pc = "idle"
  /\ fs[p].type # "none"
  /\ fs' = [fs EXCEPT ![p] = NoEntry]
  /\ UNCHANGED <<report_type, test_result, outcome, pc, toolVars>>

NextFiles ==
  \/ \E rt \in Selectors : Construct(rt)
  \/ \E s \in FileInputs : ParseCall(s)
  \/ Return
  \/ \E p \in FsPaths, content \in FileContents : WriteFile(p, content)
  \/ \E p \in FsPaths : MakeDir(p)
  \/ \E p \in FsPaths : Remove(p)

SpecFiles == Init /\ [][NextFiles]_vars

Next ==
  \/ \E rt \in Selectors : Construct(rt)
  \/ \E s \in DocInputs : ParseCall(s)
  \/ Return

Spec == Init /\ [][Next]_vars

(***************************************************************************)
(* tools/run_tests.py: _run_unittest_internal                              *)
(*                                                                         *)
(* The call runs "helm unittest" as a subprocess, which writes the report  *)
(* to output_file, then parses that file.  pc follows the call: at the     *)
(* subprocess, at the parser, in the finally block, and finished with a    *)
(* summary returned or an exception raised to the caller.                  *)
(***************************************************************************)
\* tempfile.mkstemp(suffix=".xml") returns a path that did not exist
TempPaths == {P_xml}

\* the output_file arguments of the callers
OutputFiles == {NoPath, P_out, P_xml}

\* what helm writes to the report file
Reports == {Hybrid, Unclosed, BadTime, <<>>}

\* lines 21-34: a temporary file is made when no output_file is given
RunCall(output_type, out) ==
  /\ pc = "idle"
  /\ report_type' = output_type
  /\ IF out = NoPath
     THEN \E t \in TempPaths :
            /\ fs[t].type = "none"
            /\ fs' = [fs EXCEPT ![t] = FileEntry(<<>>)]
            /\ output_file' = t
            /\ is_temp' = TRUE
     ELSE /\ output_file' = out
          /\ is_temp' = FALSE
          /\ fs' = fs
  /\ pc' = "subprocess"
  /\ UNCHANGED <<test_result, outcome, besideRun>>

\* line 37, helm is not installed: subprocess.run raises FileNotFoundError
\* before the try block is entered
HelmMissing ==
  /\ pc = "subprocess"
  /\ outcome' = Raise("FileNotFoundError", "helm", <<>>)
  /\ pc' = "raised"
  /\ UNCHANGED <<fs, report_type, test_result, runVars, besideRun>>

\* line 37, helm runs and writes its report (check=False: its exit status
\* is ignored)
HelmWrites(report) ==
  /\ pc = "subprocess"
  /\ fs[output_file].type # "dir"
  /\ fs' = [fs EXCEPT ![output_file] = FileEntry(report)]
  /\ pc' = "parser"
  /\ UNCHANGED <<report_type, test_result, outcome, runVars, besideRun>>

\* line 37, helm fails without writing anything
HelmFails ==
  /\ pc = "subprocess"
  /\ pc' = "parser"
  /\ UNCHANGED <<fs, report_type, test_result, outcome, runVars, besideRun>>

\* lines 39-41: parser = TestResultParser(output_type); parser.parse(output_file)
RunParse ==
  /\ pc = "parser"
  /\ test_result' = output_file
  /\ outcome' = Parse(report_type, fs, output_file)
  /\ pc' = "finally"
  /\ UNCHANGED <<fs, report_type, runVars, besideRun>>

\* if is_temp and os.path.exists(output_file)
Cleans == is_temp /\ PathExists(fs, output_file)

\* lines 42-48: os.remove(output_file), whose failure is swallowed; then
\* the summary is returned or the parser's exception goes on to the caller
RunFinally(removed) ==
  /\ pc = "finally"
  /\ IF Cleans /\ removed
     THEN fs' = [fs EXCEPT ![output_file] = NoEntry]
     ELSE fs' = fs
  /\ Cleans \/ removed
  /\ pc' = IF outcome.kind = "summary" THEN "done" ELSE "raised"
  /\ UNCHANGED <<report_type, test_result, outcome, runVars, besideRun>>

\* the caller has the summary or the exception
RunReturn ==
  /\ pc \in {"done", "raised"}
  /\ pc' = "idle"
  /\ test_result' = <<>>
  /\ outcome' = NoOutcome
  /\ is_temp' = FALSE
  /\ output_file' = NoPath
  /\ UNCHANGED <<fs, report_type, besideRun>>

NextRun ==
  \/ \E output_type \in Selectors, out \in OutputFiles : RunCall(output_type, out)
  \/ HelmMissing
  \/ \E report \in Reports : HelmWrites(report)
  \/ HelmFails
  \/ RunParse
  \/ \E removed \in BOOLEAN : RunFinally(removed)
  \/ RunReturn
  \/ \E p \in FsPaths, content \in FileContents : WriteFile(p, content)
  \/ \E p \in FsPaths : MakeDir(p)
  \/ \E p \in FsPaths : Remove(p)

SpecRun == Init /\ [][NextRun]_vars

(***************************************************************************)
(* YAML test files, by what yaml.safe_load makes of them.                  *)
(***************************************************************************)
YNull == [t |-> "null"]

YStr(cs) == [t |-> "str", v |-> cs]

YInt(n) == [t |-> "int", v |-> n]

YList(items) == [t |-> "list", v |-> items]

YDict(fields) == [t |-> "dict", v |-> fields]

\* {suite: s, tests: [{it: t}]}
Y_suite == Text(<<"{", "s", "u", "i", "t", "e", ":", " ", "s", ",", " ", "t", "e", "s", "t", "s", ":", " ", "[", "{", "i", "t", ":", " ", "t", "}", "]", "}">>)

\* suite: s
Y_notests == Text(<<"s", "u", "i", "t", "e", ":", " ", "s">>)

\* - a
Y_list == Text(<<"-", " ", "a">>)

\* a: [
Y_syntax == Text(<<"a", ":", " ", "[">>)

\* {suite: 1, tests: [{it: t}]}
Y_intsuite == Text(<<"{", "s", "u", "i", "t", "e", ":", " ", "1", ",", " ", "t", "e", "s", "t", "s", ":", " ", "[", "{", "i", "t", ":", " ", "t", "}", "]", "}">>)

\* {suite: ' ', tests: [{it: t}]}
Y_blanksuite == Text(<<"{", "s", "u", "i", "t", "e", ":", " ", "'", " ", "'", ",", " ", "t", "e", "s", "t", "s", ":", " ", "[", "{", "i", "t", ":", " ", "t", "}", "]", "}">>)

\* {suite: s, tests: t}
Y_strtests == Text(<<"{", "s", "u", "i", "t", "e", ":", " ", "s", ",", " ", "t", "e", "s", "t", "s", ":", " ", "t", "}">>)

\* {suite: s, tests: []}
Y_emptytests == Text(<<"{", "s", "u", "i", "t", "e", ":", " ", "s", ",", " ", "t", "e", "s", "t", "s", ":", " ", "[", "]", "}">>)

\* {suite: s, tests: [{is: t}]}
Y_noit == Text(<<"{", "s", "u", "i", "t", "e", ":", " ", "s", ",", " ", "t", "e", "s", "t", "s", ":", " ", "[", "{", "i", "s", ":", " ", "t", "}", "]", "}">>)

It(k) == YList(<<YDict(k :> YStr(<<"t">>))>>)

\* yaml.safe_load(f): ok is FALSE where it raises yaml.YAMLError
YamlLoad(content) ==
  CASE content = <<>> -> [ok |-> TRUE, data |-> YNull]
    [] content = Y_syntax -> [ok |-> FALSE, data |-> YNull]
    [] content = Y_suite ->
         [ok |-> TRUE, data |-> YDict([suite |-> YStr(<<"s">>), tests |-> It("it")])]
    [] content = Y_notests -> [ok |-> TRUE, data |-> YDict([suite |-> YStr(<<"s">>)])]
    [] content = Y_list -> [ok |-> TRUE, data |-> YList(<<YStr(<<"a">>)>>)]
    [] content = Y_intsuite ->
         [ok |-> TRUE, data |-> YDict([suite |-> YInt(1), tests |-> It("it")])]
    [] content = Y_blanksuite ->
         [ok |-> TRUE, data |-> YDict([suite |-> YStr(<<" ">>), tests |-> It("it")])]
    [] content = Y_strtests ->
         [ok |-> TRUE, data |-> YDict([suite |-> YStr(<<"s">>), tests |-> YStr(<<"t">>)])]
    [] content = Y_emptytests ->
         [ok |-> TRUE, data |-> YDict([suite |-> YStr(<<"s">>), tests |-> YList(<<>>)])]
    [] content = Y_noit ->
         [ok |-> TRUE, data |-> YDict([suite |-> YStr(<<"s">>), tests |-> It("is")])]

(***************************************************************************)
(* tools/schema_validator.py: validate_schema                              *)
(***************************************************************************)
\* what requests.get finds at schema_url: no connection, an HTTP error
\* status, a body that is not JSON, or one of three schemas: {} (accepts
\* anything), an object schema that requires "tests", and a document that
\* is not a schema
Unreachable == {"down", "http_error", "not_json"}

Schemas == {"any", "suite", "invalid"}

Networks == Unreachable \cup Schemas

\* the classes an exception is an instance of
Classes(exc) ==
  CASE exc = "FileNotFoundError" -> {"FileNotFoundError", "OSError", "Exception"}
    [] exc = "IsADirectoryError" -> {"IsADirectoryError", "OSError", "Exception"}
    [] exc = "YAMLError" -> {"YAMLError", "Exception"}
    [] exc = "ConnectionError" -> {"ConnectionError", "RequestException", "OSError", "Exception"}
    [] exc = "HTTPError" -> {"HTTPError", "RequestException", "OSError", "Exception"}
    [] exc = "JSONDecodeError" ->
         {"JSONDecodeError", "RequestException", "ValueError", "OSError", "Exception"}
    [] exc = "ValidationError" -> {"ValidationError", "Exception"}
    [] exc = "SchemaError" -> {"SchemaError", "Exception"}
    [] exc = "PermissionError" -> {"PermissionError", "OSError", "Exception"}
    [] exc = "KeyError" -> {"KeyError", "LookupError", "Exception"}
    [] exc = "TypeError" -> {"TypeError", "Exception"}
    [] exc = "ValueError" -> {"ValueError", "Exception"}

\* _get_schema(url) under lru_cache(maxsize=1): a schema once fetched is
\* kept; an exception is not cached
\* requests.get(url), raise_for_status() and response.json(): what the
\* call raises and the schema it returns.
Fetch(net) ==
  IF net = "down" THEN [exc |-> "ConnectionError", schema |-> "none"]
  ELSE IF net = "http_error" THEN [exc |-> "HTTPError", schema |-> "none"]
  ELSE IF net = "not_json" THEN [exc |-> "JSONDecodeError", schema |-> "none"]
  ELSE [exc |-> "none", schema |-> net]

\* Mutant: the cache is never consulted.
GetSchemaUncached(cache, net) ==
  [exc |-> Fetch(net).exc,
   schema |-> IF Fetch(net).exc = "none" THEN Fetch(net).schema ELSE cache,
   requested |-> TRUE]

\* lru_cache: a cached schema is returned without calling the function; a
\* call that raises leaves nothing in the cache.
GetSchema(cache, net) ==
  IF cache # "none" THEN [exc |-> "none", schema |-> cache, requested |-> FALSE]
  ELSE [exc |-> Fetch(net).exc, schema |-> Fetch(net).schema, requested |-> TRUE]

\* jsonschema's verdict on an instance
Conforms(data, schema) ==
  \/ schema = "any"
  \/ schema = "suite" /\ data.t = "dict" /\ "tests" \in DOMAIN data.v

\* the try block, lines 57-75: the exception it raises, "none" if it
\* reaches the return
TryValidate(cache, net, files, test_file_path) ==
  LET got == GetSchema(cache, net)
      y == YamlLoad(PathEntry(files, test_file_path).content)
      exc == IF got.exc # "none" THEN got.exc
             ELSE IF ~PathExists(files, test_file_path) THEN "FileNotFoundError"
             ELSE IF ~PathIsFile(files, test_file_path) THEN "IsADirectoryError"
             ELSE IF ~y.ok THEN "YAMLError"
             ELSE IF got.schema = "invalid" THEN "SchemaError"
             ELSE IF ~Conforms(y.data, got.schema) THEN "ValidationError"
             ELSE "none"
  IN [exc |-> exc, cache |-> got.schema, requested |-> got.requested]

NoErrors == [present |-> FALSE, list |-> <<>>]

ErrorList(list) == [present |-> TRUE, list |-> list]

ValidationResult(path, success, message, errors) ==
  [kind |-> "result", path |-> path, exc |-> "none",
   success |-> success, message |-> message, errors |-> errors]

Propagated(path, exc) ==
  [kind |-> "raised", path |-> path, exc |-> exc,
   success |-> FALSE, message |-> "", errors |-> NoErrors]

\* Mutant: the handlers without the last, catch-all clause.
HandlersNoCatchAll ==
  <<"FileNotFoundError", "YAMLError", "RequestException", "ValidationError">>

\* the except clauses, in order
Handlers ==
  <<"FileNotFoundError", "YAMLError", "RequestException", "ValidationError", "Exception">>

\* the first clause that matches the exception, 0 if none does
Caught(exc) ==
  LET hit == {i \in DOMAIN Handlers : Handlers[i] \in Classes(exc)}
  IN IF hit = {} THEN 0 ELSE CHOOSE i \in hit : \A j \in hit : i <= j

\* lines 77-112: what each clause returns
Handled(path, clause, exc) ==
  CASE clause = "FileNotFoundError" ->
         ValidationResult(path, FALSE, "Test file not found", ErrorList(<<"Test file not found">>))
    [] clause = "YAMLError" ->
         ValidationResult(path, FALSE, "Invalid YAML syntax", ErrorList(<<"YAML parsing error">>))
    [] clause = "RequestException" ->
         ValidationResult(path, FALSE, "Failed to fetch schema", ErrorList(<<"Network error">>))
    [] clause = "ValidationError" ->
         ValidationResult(path, FALSE, "Schema validation failed", ErrorList(<<"Validation error">>))
    [] clause = "Exception" ->
         ValidationResult(path, FALSE, "Unexpected error during validation", ErrorList(<<"Error">>))

ValidateSchema(cache, net, files, test_file_path) ==
  LET body == TryValidate(cache, net, files, test_file_path)
      clause == Caught(body.exc)
  IN [cache |-> body.cache,
      requested |-> body.requested,
      result |-> IF body.exc = "none"
                 THEN ValidationResult(test_file_path, TRUE, "Validation successful", NoErrors)
                 ELSE IF clause = 0 THEN Propagated(test_file_path, body.exc)
                 ELSE Handled(test_file_path, Handlers[clause], body.exc)]

YamlContents == {Y_suite, Y_notests, Y_list, Y_syntax, <<>>}

ValidateCall(test_file_path) ==
  /\ pc = "idle"
  /\ LET r == ValidateSchema(schema_cache, network, fs, test_file_path)
     IN /\ validation' = r.result
        /\ schema_cache' = r.cache
        /\ requested' = r.requested
  /\ pc' = "validated"
  /\ UNCHANGED <<fs, report_type, test_result, outcome, network, besideValidate>>

\* the caller has the ValidationResult
ValidateReturn ==
  /\ pc = "validated"
  /\ pc' = "idle"
  /\ validation' = NoValidation
  /\ UNCHANGED <<fs, report_type, test_result, outcome, schema_cache, network, requested,
                 besideValidate>>

\* the schema's host comes and goes
NetworkChange(net) ==
  /\ pc = "idle"
  /\ network # net
  /\ network' = net
  /\ UNCHANGED <<fs, report_type, test_result, outcome, pc, schema_cache, validation,
                 requested, besideValidate>>

NextValidate ==
  \/ \E p \in FsPaths \cup {NoPath} : ValidateCall(p)
  \/ ValidateReturn
  \/ \E net \in Networks : NetworkChange(net)
  \/ \E p \in FsPaths, content \in YamlContents : WriteFile(p, content)
  \/ \E p \in FsPaths : MakeDir(p)
  \/ \E p \in FsPaths : Remove(p)

SpecValidate == Init /\ [][NextValidate]_vars

(***************************************************************************)
(* tools/get_tests.py: get_test_from_file and get_tests                    *)
(***************************************************************************)
TestFile(suite, tests, release, file_path) ==
  [suite |-> suite, tests |-> tests, release |-> release, file_path |-> file_path]

NoTestFile == TestFile(<<>>, <<>>, YNull, <<>>)

Fault(exc) == [ok |-> FALSE, exc |-> exc, file |-> NoTestFile]

\* x.get('it').strip() works on every item of the list
ItemsHaveIt(test_list) ==
  \A i \in DOMAIN test_list :
    /\ test_list[i].t = "dict"
    /\ "it" \in DOMAIN test_list[i].v
    /\ test_list[i].v["it"].t = "str"

\* get_test_from_file(test_file_path) on a file that is there or gone,
\* readable or not, with the given content
GetTestFromFile(test_file_path, there, readable, content) ==
  LET y == YamlLoad(content)
      tests == y.data
  IN IF test_file_path = <<>> THEN Fault("ValueError")
     ELSE IF ~there THEN Fault("FileNotFoundError")
     ELSE IF ~readable THEN Fault("PermissionError")
     ELSE IF ~y.ok THEN Fault("YAMLError")
     ELSE IF tests.t = "null" THEN Fault("ValueError")
     ELSE IF tests.t # "dict" THEN Fault("TypeError")
     ELSE IF ~({"suite", "tests"} \subseteq DOMAIN tests.v) THEN Fault("KeyError")
     ELSE IF tests.v["suite"].t # "str" THEN Fault("TypeError")
     ELSE IF Strip(tests.v["suite"].v, LAMBDA c : c \in Whitespace) = <<>>
       THEN Fault("ValueError")
     ELSE IF tests.v["tests"].t # "list" THEN Fault("TypeError")
     ELSE IF tests.v["tests"].v = <<>> THEN Fault("ValueError")
     ELSE IF ~ItemsHaveIt(tests.v["tests"].v) THEN Fault("ValueError")
     ELSE [ok |-> TRUE, exc |-> "none",
           file |-> TestFile(tests.v["suite"].v,
                             [i \in DOMAIN tests.v["tests"].v |->
                                Strip(tests.v["tests"].v[i].v["it"].v,
                                      LAMBDA c : c \in Whitespace)],
                             IF "release" \in DOMAIN tests.v THEN tests.v["release"]
                             ELSE YDict(<<>>),
                             test_file_path)]

DotYaml == <<".", "y", "a", "m", "l">>

\* s.lower().endswith(".yaml")
EndsWithYaml(name) ==
  /\ Len(name) >= Len(DotYaml)
  /\ Lower(SubSeq(name, Len(name) - Len(DotYaml) + 1, Len(name))) = DotYaml

\* file_pattern.match(filename): the default pattern .*\.yaml$ without
\* regard to case, or a pattern of literal characters, which re.match
\* looks for at the start of the name
Matches(pattern, filename) ==
  IF Strip(pattern, LAMBDA c : c \in Whitespace) = <<>>
  THEN EndsWithYaml(filename)
  ELSE Len(filename) >= Len(pattern) /\ SubSeq(filename, 1, Len(pattern)) = pattern

\* os.path.join(root, filename)
Join(root, filename) == root \o <<"/">> \o filename

PathOf(entry) == Join(entry.root, entry.name)

\* Mutant: the loop guards against ValueError only.
WalkCatchesValueError == "ValueError"

\* except Exception
WalkCatches == "Exception"

\* a file os.walk lists: where, its name, and what opening it will find
Listed(root, name, there, readable, content) ==
  [root |-> root, name |-> name, there |-> there, readable |-> readable,
   content |-> content]

D_charts == <<"c", "h", "a", "r", "t", "s">>

D_sub == <<"c", "h", "a", "r", "t", "s", "/", "s", "u", "b">>

Listable ==
  {Listed(D_charts, <<"a", ".", "y", "a", "m", "l">>, TRUE, TRUE, Y_suite),
   Listed(D_charts, <<"b", ".", "Y", "A", "M", "L">>, TRUE, TRUE, Y_suite),
   Listed(D_sub, <<"t", ".", "t", "x", "t">>, TRUE, TRUE, Y_suite),
   Listed(D_charts, <<"k", ".", "y", "a", "m", "l">>, TRUE, TRUE, Y_notests),
   Listed(D_charts, <<"t", "y", ".", "y", "a", "m", "l">>, TRUE, TRUE, Y_syntax),
   Listed(D_sub, <<"g", "o", "n", "e", ".", "y", "a", "m", "l">>, FALSE, TRUE, Y_suite),
   Listed(D_sub, <<"n", ".", "y", "a", "m", "l">>, TRUE, TRUE, Y_noit),
   Listed(D_sub, <<"l", "o", "c", "k", "e", "d", ".", "y", "a", "m", "l">>, TRUE, FALSE, Y_suite)}

MaxWalk == 3

\* the injective sequences over S of length at most n: os.walk lists no
\* file twice
Listings(S, n) ==
  {l \in SeqsUpTo(S, n) : \A i, j \in DOMAIN l : l[i] = l[j] => i = j}

Patterns == {<<>>, <<"t">>}

\* lines 30-55: the checks of dir_path, then the walk begins
GetTestsCall(dir_path, pattern, listing) ==
  /\ pc = "idle"
  /\ IF dir_path = <<>>
     THEN outcome' = Raise("ValueError", "dir_path cannot be empty", <<>>)
     ELSE IF ~PathExists(fs, dir_path)
     THEN outcome' = Raise("FileNotFoundError", "Directory not found", <<>>)
     ELSE IF PathEntry(fs, dir_path).type # "dir"
     THEN outcome' = Raise("NotADirectoryError", "Path is not a directory", <<>>)
     ELSE outcome' = outcome
  /\ IF dir_path # <<>> /\ PathEntry(fs, dir_path).type = "dir"
     THEN /\ walk' = [pattern |-> pattern, files |-> listing]
          /\ pc' = "walking"
     ELSE /\ pattern = <<>> /\ listing = <<>>
          /\ walk' = walk
          /\ pc' = "walk_raised"
  /\ position' = 0
  /\ test_files' = <<>>
  /\ attempted' = <<>>
  /\ UNCHANGED <<fs, report_type, test_result, besideWalk>>

\* lines 59-72: one file of the walk
WalkStep ==
  /\ pc = "walking"
  /\ position < Len(walk.files)
  /\ position' = position + 1
  /\ LET entry == walk.files[position + 1]
         file_path == PathOf(entry)
         got == GetTestFromFile(file_path, entry.there, entry.readable, entry.content)
     IN IF ~Matches(walk.pattern, entry.name)
        THEN UNCHANGED <<attempted, test_files, outcome, pc>>
        ELSE /\ attempted' = Append(attempted, file_path)
             /\ IF got.ok
                THEN /\ test_files' = Append(test_files, got.file)
                     /\ UNCHANGED <<outcome, pc>>
                ELSE IF WalkCatches \in Classes(got.exc)
                THEN UNCHANGED <<test_files, outcome, pc>>
                ELSE /\ outcome' = Raise(got.exc, "", <<>>)
                     /\ pc' = "walk_raised"
                     /\ UNCHANGED test_files
  /\ UNCHANGED <<fs, report_type, test_result, walk, besideWalk>>

\* line 74: return test_files
WalkEnd ==
  /\ pc = "walking"
  /\ position = Len(walk.files)
  /\ pc' = "listed"
  /\ UNCHANGED <<fs, report_type, test_result, outcome, walkVars, besideWalk>>

\* the caller has the list or the exception
GetTestsReturn ==
  /\ pc \in {"listed", "walk_raised"}
  /\ pc' = "idle"
  /\ outcome' = NoOutcome
  /\ walk' = NoWalk
  /\ position' = 0
  /\ test_files' = <<>>
  /\ attempted' = <<>>
  /\ UNCHANGED <<fs, report_type, test_result, besideWalk>>

NextWalk ==
  \/ \E dir_path \in {NoPath, P_out}, pattern \in Patterns,
        listing \in Listings(Listable, MaxWalk) : GetTestsCall(dir_path, pattern, listing)
  \/ WalkStep
  \/ WalkEnd
  \/ GetTestsReturn
  \/ \E p \in {P_out} : WriteFile(p, <<>>)
  \/ \E p \in {P_out} : MakeDir(p)
  \/ \E p \in {P_out} : Remove(p)

\* get_tests does not use the parser: one selector is enough
InitWalk == Init /\ report_type = "xunit"

SpecWalk == InitWalk /\ [][NextWalk]_vars

(***************************************************************************)
(* What the claims speak of.                                               *)
(***************************************************************************)
(***************************************************************************)
(* Server (src/utils/mcp.py): Server() runs __new__ and then __init__ on   *)
(* the object __new__ returned.  Threads interleave between statements.    *)
(***************************************************************************)
At(t, where) == threads[t].pc = where

Goto(t, where) == threads' = [threads EXCEPT ![t].pc = where]

parserVars == <<fs, report_type, test_result, outcome, pc>>

\* a thread calls Server()
ServerCall(t) ==
  /\ At(t, "idle")
  /\ Goto(t, "new_check")
  /\ UNCHANGED <<parserVars, _instance, _initialized, _lock, servers, fastmcps, besideServer>>

\* __new__: if cls._instance is None
NewCheck(t) ==
  /\ At(t, "new_check")
  /\ Goto(t, IF _instance = 0 THEN "new_lock" ELSE "new_return")
  /\ UNCHANGED <<parserVars, _instance, _initialized, _lock, servers, fastmcps, besideServer>>

\* with cls._lock
NewLock(t) ==
  /\ At(t, "new_lock")
  /\ _lock = 0
  /\ _lock' = t
  /\ Goto(t, "new_recheck")
  /\ UNCHANGED <<parserVars, _instance, _initialized, servers, fastmcps, besideServer>>

\* if cls._instance is None: cls._instance = super().__new__(cls)
NewRecheck(t) ==
  /\ At(t, "new_recheck")
  /\ IF _instance = 0
     THEN /\ servers' = Append(servers, [_mcp |-> 0])
          /\ _instance' = Len(servers) + 1
     ELSE UNCHANGED <<servers, _instance>>
  /\ Goto(t, "new_unlock")
  /\ UNCHANGED <<parserVars, _initialized, _lock, fastmcps, besideServer>>

\* the with block of __new__ ends
NewUnlock(t) ==
  /\ At(t, "new_unlock")
  /\ _lock' = 0
  /\ Goto(t, "new_return")
  /\ UNCHANGED <<parserVars, _instance, _initialized, servers, fastmcps, besideServer>>

\* return cls._instance; __init__ is called on it
NewReturn(t) ==
  /\ At(t, "new_return")
  /\ threads' = [threads EXCEPT ![t].self = _instance, ![t].pc = "init_check"]
  /\ UNCHANGED <<parserVars, _instance, _initialized, _lock, servers, fastmcps, besideServer>>

\* __init__: if not Server._initialized
InitCheck(t) ==
  /\ At(t, "init_check")
  /\ Goto(t, IF ~_initialized THEN "init_lock" ELSE "init_return")
  /\ UNCHANGED <<parserVars, _instance, _initialized, _lock, servers, fastmcps, besideServer>>

\* with Server._lock
InitLock(t) ==
  /\ At(t, "init_lock")
  /\ _lock = 0
  /\ _lock' = t
  /\ Goto(t, "init_recheck")
  /\ UNCHANGED <<parserVars, _instance, _initialized, servers, fastmcps, besideServer>>

\* Mutant: no second test under the lock.
InitRecheckAlways(t) ==
  /\ At(t, "init_recheck")
  /\ Goto(t, "init_construct")
  /\ UNCHANGED <<parserVars, _instance, _initialized, _lock, servers, fastmcps, besideServer>>

\* if not Server._initialized, under the lock
InitRecheck(t) ==
  /\ At(t, "init_recheck")
  /\ Goto(t, IF ~_initialized THEN "init_construct" ELSE "init_unlock")
  /\ UNCHANGED <<parserVars, _instance, _initialized, _lock, servers, fastmcps, besideServer>>

\* FastMCP("Helm unittest service")
InitConstruct(t) ==
  /\ At(t, "init_construct")
  /\ fastmcps' = fastmcps + 1
  /\ threads' = [threads EXCEPT ![t].made = fastmcps + 1, ![t].pc = "init_assign"]
  /\ UNCHANGED <<parserVars, _instance, _initialized, _lock, servers, besideServer>>

\* self._mcp = the FastMCP just made
InitAssign(t) ==
  /\ At(t, "init_assign")
  /\ servers' = [servers EXCEPT ![threads[t].self]._mcp = threads[t].made]
  /\ Goto(t, "init_flag")
  /\ UNCHANGED <<parserVars, _instance, _initialized, _lock, fastmcps, besideServer>>

\* Server._initialized = True
InitFlag(t) ==
  /\ At(t, "init_flag")
  /\ _initialized' = TRUE
  /\ Goto(t, "init_unlock")
  /\ UNCHANGED <<parserVars, _instance, _lock, servers, fastmcps, besideServer>>

\* the with block of __init__ ends
InitUnlock(t) ==
  /\ At(t, "init_unlock")
  /\ _lock' = 0
  /\ Goto(t, "init_return")
  /\ UNCHANGED <<parserVars, _instance, _initialized, servers, fastmcps, besideServer>>

\* Server() returns the object to its caller
InitReturn(t) ==
  /\ At(t, "init_return")
  /\ threads' = [threads EXCEPT ![t].result = threads[t].self, ![t].pc = "idle"]
  /\ UNCHANGED <<parserVars, _instance, _initialized, _lock, servers, fastmcps, besideServer>>

NextServer ==
  \E t \in Threads :
    \/ ServerCall(t)
    \/ NewCheck(t) \/ NewLock(t) \/ NewRecheck(t) \/ NewUnlock(t) \/ NewReturn(t)
    \/ InitCheck(t) \/ InitLock(t) \/ InitRecheck(t) \/ InitConstruct(t)
    \/ InitAssign(t) \/ InitFlag(t) \/ InitUnlock(t) \/ InitReturn(t)

SpecServer == Init /\ [][NextServer]_vars

(***************************************************************************)
(* parse, statement by statement, in threads that share one parser.  The   *)
(* counters are locals of the call; test_cases = [] makes a new list, and  *)
(* the summary returned holds that list.                                   *)
(***************************************************************************)
\* A document with two suites for every dialect.
Both ==
  Elem("test-results", [total |-> <<"4">>, failures |-> <<"2">>, time |-> T_clock], <<>>,
       JunitSuiteDoc(1, [time |-> T_05, nest |-> FALSE])
       \o JunitSuiteDoc(2, [time |-> T_15, nest |-> FALSE])
       \o AssemblyDoc([total |-> <<"1">>, passed |-> <<"1">>, time |-> T_05],
                      <<[result |-> <<"P", "a", "s", "s">>, time |-> T_05]>>)
       \o AssemblyDoc([total |-> <<"1">>, failed |-> <<"1">>, time |-> T_15],
                      <<[result |-> <<"F", "a", "i", "l">>, time |-> T_15]>>)
       \o NunitSuiteDoc(1, [time |-> T_05, nest |-> FALSE],
                        <<[result |-> <<"F", "a", "i", "l">>, time |-> T_05]>>)
       \o NunitSuiteDoc(2, [time |-> T_15, nest |-> FALSE],
                        <<[result |-> <<"P", "a", "s", "s">>, time |-> T_15]>>))

CallInputs == {Both, BadTime, Unclosed}

\* The counters before the loop.
WalkStart(rt, nodes) ==
  IF rt = "junit" THEN JunitStart(nodes)
  ELSE IF rt = "nunit" /\ nodes[Root].tag = "test-results" /\ ~NunitCountsOk(nodes)
  THEN Raised(Acc0)
  ELSE Acc0

\* The elements the outer loop goes through.
WalkTodo(rt, nodes) ==
  IF rt = "junit" THEN JunitSuites(nodes)
  ELSE IF rt = "xunit" THEN XunitAssemblies(nodes)
  ELSE IF nodes[Root].tag = "test-results" THEN NunitSuites(nodes)
  ELSE <<>>

\* One turn of the outer loop.
WalkBody(rt, nodes, acc, e) ==
  IF rt = "junit" THEN JunitSuite(nodes, acc, e)
  ELSE IF rt = "xunit" THEN XunitAssembly(nodes, acc, e)
  ELSE NunitSuite(nodes, acc, e)

\* The counters the summary is made from.
WalkFinish(rt, nodes, acc) ==
  IF rt = "nunit" /\ nodes[Root].tag = "test-results" /\ ~acc.err
  THEN NunitFinish(nodes, acc)
  ELSE acc

\* Mutant: one list serves every call.
NewListShared(ls) == 1

\* test_cases = []: the list made is one no other call has.
NewList(ls) == Len(ls) + 1

\* The calls that have started and have not made their list yet.
Starting == {t \in Callers : calls[t].pc = "get_root"}

\* parse(test_result): the selector decides the adapter
ParseBegin(t, s) ==
  /\ calls[t].pc = "idle"
  /\ Len(lists) + Cardinality(Starting) < MaxLists
  /\ calls' = [calls EXCEPT ![t] =
       IF report_type \in {"junit", "xunit", "nunit"}
       THEN [NoCall EXCEPT !.pc = "get_root", !.test_result = s, !.adapter = report_type]
       ELSE [NoCall EXCEPT !.pc = "done", !.test_result = s,
                           !.outcome = Raise("ValueError", "Unsupported report type", <<>>)]]
  /\ UNCHANGED <<parserVars, lists, besideCalls>>

\* root = self._get_root(test_result), then the counters and the list
ParseGetRoot(t) ==
  /\ calls[t].pc = "get_root"
  /\ LET r == GetRoot(fs, calls[t].test_result)
         list == NewList(lists)
     IN IF r.kind = "FileNotFoundError"
        THEN /\ calls' = [calls EXCEPT ![t].pc = "done",
                                       ![t].outcome = Raise(r.kind, "File not found", r.io)]
             /\ UNCHANGED lists
        ELSE IF r.kind = "ParseError"
        THEN /\ calls' = [calls EXCEPT ![t].pc = "done",
                                       ![t].outcome = Raise(r.kind, "", r.io)]
             /\ UNCHANGED lists
        ELSE /\ lists' = IF list > Len(lists) THEN Append(lists, <<>>) ELSE lists
             /\ calls' = [calls EXCEPT ![t].pc = "loop", ![t].nodes = r.nodes,
                                       ![t].io = r.io,
                                       ![t].counters = WalkStart(calls[t].adapter, r.nodes),
                                       ![t].test_cases = list,
                                       ![t].todo = WalkTodo(calls[t].adapter, r.nodes)]
  /\ UNCHANGED <<parserVars, besideCalls>>

\* one suite (or assembly): its cases are appended to the call's list
ParseSuite(t) ==
  /\ calls[t].pc = "loop"
  /\ ~calls[t].counters.err
  /\ calls[t].todo # <<>>
  /\ LET c == calls[t]
         acc == WalkBody(c.adapter, c.nodes, [c.counters EXCEPT !.cases = lists[c.test_cases]],
                         Head(c.todo))
     IN /\ lists' = [lists EXCEPT ![c.test_cases] = acc.cases]
        /\ calls' = [calls EXCEPT ![t].counters = [acc EXCEPT !.cases = <<>>],
                                  ![t].todo = Tail(c.todo)]
  /\ UNCHANGED <<parserVars, besideCalls>>

\* return TestResultSummary(..., test_cases=test_cases), or the ValueError
ParseEnd(t) ==
  /\ calls[t].pc = "loop"
  /\ calls[t].counters.err \/ calls[t].todo = <<>>
  /\ LET c == calls[t]
     IN calls' = [calls EXCEPT ![t].pc = "done",
                               ![t].outcome = Adapt([io |-> c.io],
                                                    WalkFinish(c.adapter, c.nodes, c.counters))]
  /\ UNCHANGED <<parserVars, lists, besideCalls>>

\* the caller is done with the summary or the exception
ParseDrop(t) ==
  /\ calls[t].pc = "done"
  /\ calls' = [calls EXCEPT ![t] = NoCall]
  /\ UNCHANGED <<parserVars, lists, besideCalls>>

NextCalls ==
  \E t \in Callers :
    \/ \E s \in CallInputs : ParseBegin(t, s)
    \/ ParseGetRoot(t)
    \/ ParseSuite(t)
    \/ ParseEnd(t)
    \/ ParseDrop(t)

SpecCalls == Init /\ [][NextCalls]_vars

Dialects == {"junit", "xunit", "nunit"}

Returned == pc = "returned"

Summary == outcome.summary

\* The call read nothing: no existence check, no file read, no XML parse.
NoIo == outcome.io = <<>>

XmlParsed == \E i \in DOMAIN outcome.io : outcome.io[i].op \in {"ET.parse", "ET.fromstring"}

\* The input names a regular file the resolver opens.
OpensFile(s) == ~StartsWithLt(s) /\ PathIsFile(fs, s)

\* The input is resolved to content: a file's, or the string itself.
ResolvesToContent(s) == OpensFile(s) \/ StartsWithLt(s) \/ ~IsLikelyPath(s)

ContentOf(s) == IF OpensFile(s) THEN PathEntry(fs, s).content ELSE s

\* Contents that are not well-formed XML: the empty string, plain text, an
\* unclosed tag, text after or before the root element.
Malformed ==
  {<<>>, NotXml, Unclosed, P_xml, P_out, P_lt, Hybrid \o Text(<<"x">>),
   Text(<<" ", "o", "u", "t">>), Text(<<"a", "/", "b", "\n", "c">>)}

\* C1: a selector outside junit/xunit/nunit makes parse raise the
\* unsupported-format ValueError, whatever the content, before any I/O.
C1_UnsupportedBeforeIo ==
  (Returned /\ report_type \notin Dialects)
    => (outcome.kind = "ValueError" /\ outcome.msg = "Unsupported report type" /\ NoIo)

C1_Witness ==
  /\ Returned /\ report_type = "invalid"
  /\ test_result = P_xml /\ PathIsFile(fs, P_xml)
  /\ outcome.msg = "Unsupported report type"

\* C2: for each dialect, an input that resolves to content which is not
\* well-formed XML raises ET.ParseError; no summary is returned for it.
C2_MalformedRaises ==
  (Returned /\ report_type \in Dialects /\ ResolvesToContent(test_result)
     /\ ContentOf(test_result) \in Malformed)
    => outcome.kind = "ParseError"

C2_Witness ==
  /\ Returned /\ report_type = "nunit"
  /\ test_result = P_out /\ fs[P_out] = FileEntry(Unclosed)
  /\ outcome.kind = "ParseError"

EndsInDotXml(s) ==
  /\ Len(s) >= 4
  /\ SubSeq(s, Len(s) - 3, Len(s)) = Text(<<".", "x", "m", "l">>)

LooksLikeMissingPath(s) ==
  /\ ~StartsWithLt(s)
  /\ ~PathIsFile(fs, s)
  /\ ~HasChar(s, "\n")
  /\ (HasChar(s, "/") \/ HasChar(s, "\\") \/ EndsInDotXml(s))

\* C3: an input that does not start with '<' once trimmed, names no
\* existing regular file, has no newline and has a path separator or ends
\* in '.xml' raises FileNotFoundError, and no XML parse is attempted.
C3_MissingPathNotFound ==
  (Returned /\ report_type \in Dialects /\ LooksLikeMissingPath(test_result))
    => (outcome.kind = "FileNotFoundError" /\ ~XmlParsed)

C3_Witness ==
  /\ Returned /\ report_type = "junit"
  /\ test_result = P_xml /\ fs[P_xml] = DirEntry
  /\ outcome.kind = "FileNotFoundError"

\* The same summary, or the same kind of error.
SameOutcome(a, b) == a.kind = b.kind /\ a.summary = b.summary

ReadFrom(s) == outcome.io = <<Io("exists", s), Io("is_file", s), Io("ET.parse", s)>>

StartsLt(s) == s # <<>> /\ s[1].k # "chr"

\* The content, passed as a string, is not itself taken for a path.
NotTakenForPath(c) == StartsWithLt(c) \/ (~PathIsFile(fs, c) /\ ~IsLikelyPath(c))

\* C4 as claimed: for every dialect and regular file whose path is shorter
\* than 4096 characters and does not start with '<', parsing the path and
\* parsing the file's content as a string have the same outcome, and the
\* file is read from exactly the path given.
C4_Claimed ==
  (Returned /\ report_type \in Dialects /\ PathIsFile(fs, test_result)
     /\ StrLen(test_result) < PathMax /\ ~StartsLt(test_result))
    => (/\ SameOutcome(outcome, Parse(report_type, fs, PathEntry(fs, test_result).content))
        /\ ReadFrom(test_result))

\* C4 (amended): the same, for a path that does not start with '<' once
\* trimmed and a content that is not itself taken for a path when it is
\* passed as a string.
C4_PathAsContent ==
  (Returned /\ report_type \in Dialects /\ PathIsFile(fs, test_result)
     /\ StrLen(test_result) < PathMax /\ ~StartsWithLt(test_result)
     /\ NotTakenForPath(PathEntry(fs, test_result).content))
    => (/\ SameOutcome(outcome, Parse(report_type, fs, PathEntry(fs, test_result).content))
        /\ ReadFrom(test_result))

C4_Witness ==
  /\ Returned /\ report_type = "junit"
  /\ test_result = P_xml /\ fs[P_xml] = FileEntry(Hybrid)
  /\ outcome.kind = "summary" /\ Summary.failed = 1

(***************************************************************************)
(* The document a returned summary was made from, and the case elements    *)
(* its adapter walked, in the order it walked them.                        *)
(***************************************************************************)
Nodes == XMLParse(ContentOf(test_result)).nodes

Gave(rt) == Returned /\ report_type = rt /\ outcome.kind = "summary"

Cases == Summary.test_cases

HasChild(nodes, e, tag) ==
  \E j \in DOMAIN nodes : nodes[j].parent = e /\ nodes[j].tag = tag

Tagged(nodes, tag) == SelectSeq(Indices(nodes), LAMBDA j : nodes[j].tag = tag)

Below(nodes, tag) == SelectSeq(Indices(nodes), LAMBDA j : j # Root /\ nodes[j].tag = tag)

JunitSeen(nodes) ==
  LET suites == JunitSuites(nodes)
  IN Flat([i \in DOMAIN suites |-> FindAllDesc(nodes, suites[i], "testcase")])

XunitSeen(nodes) ==
  LET as == FindAllDesc(nodes, Root, "assembly")
      InCollections(a) ==
        LET cs == FindAllDesc(nodes, a, "collection")
        IN Flat([i \in DOMAIN cs |-> FindAllDesc(nodes, cs[i], "test")])
  IN Flat([i \in DOMAIN as |-> InCollections(as[i])])

NunitSeen(nodes) ==
  LET suites == FindAllDesc(nodes, Root, "test-suite")
      InResults(suite) ==
        LET results == Find(nodes, suite, "results")
        IN IF results = 0 THEN <<>> ELSE FindAll(nodes, results, "test-case")
  IN IF nodes[Root].tag # "test-results" THEN <<>>
     ELSE Flat([i \in DOMAIN suites |-> InResults(suites[i])])

RECURSIVE SumSeq(_, _)
SumSeq(f(_), s) == IF s = <<>> THEN 0 ELSE f(Head(s)) + SumSeq(f, Tail(s))

Count(cases, status) == Cardinality({i \in DOMAIN cases : cases[i].result = status})

\* An integer attribute, a missing one counting as 0.
IntAttr(e, a) == IF a \in DOMAIN e.attrs THEN ParseInt(e.attrs[a]).v ELSE 0

\* A time attribute in hundredths, a missing one counting as 0.
FloatAttr(e, a) == IF a \in DOMAIN e.attrs THEN ParseFloat(e.attrs[a]).v ELSE 0

\* C5: a JUnit testcase is passed iff it has no failure, error or skipped
\* child; otherwise failure decides before error, and error before skipped.
C5_JunitStatus ==
  Gave("junit") =>
    LET seen == JunitSeen(Nodes)
    IN /\ Len(Cases) = Len(seen)
       /\ \A i \in DOMAIN seen :
            LET f == HasChild(Nodes, seen[i], "failure")
                e == HasChild(Nodes, seen[i], "error")
                k == HasChild(Nodes, seen[i], "skipped")
                st == Cases[i].result
            IN /\ (st = Passed) <=> ~(f \/ e \/ k)
               /\ f => st = Failed
               /\ (~f /\ e) => st = Error
               /\ (~f /\ ~e /\ k) => st = Skipped

C5_Witness ==
  /\ Gave("junit") /\ Len(Cases) = 2
  /\ HasChild(Nodes, JunitSeen(Nodes)[1], "failure")
  /\ HasChild(Nodes, JunitSeen(Nodes)[1], "error")
  /\ Cases[1].result = Failed
  /\ ~HasChild(Nodes, JunitSeen(Nodes)[2], "failure")
  /\ HasChild(Nodes, JunitSeen(Nodes)[2], "error")
  /\ HasChild(Nodes, JunitSeen(Nodes)[2], "skipped")
  /\ Cases[2].result = Error

\* C6: in every summary of the JUnit adapter, total is the number of
\* test_cases and the sum of the four counts, and each count is the number
\* of test_cases with that status.
C6_JunitTallies ==
  Gave("junit") =>
    /\ Summary.total = Len(Cases)
    /\ Summary.total = Summary.passed + Summary.failed + Summary.errors + Summary.skipped
    /\ Summary.passed = Count(Cases, Passed)
    /\ Summary.failed = Count(Cases, Failed)
    /\ Summary.errors = Count(Cases, Error)
    /\ Summary.skipped = Count(Cases, Skipped)

C6_Witness ==
  /\ Gave("junit") /\ Summary.total = 2
  /\ Summary.skipped = 1 /\ Summary.errors = 1

XunitSums(as) ==
  /\ Summary.total = SumSeq(LAMBDA a : IntAttr(Nodes[a], "total"), as)
  /\ Summary.passed = SumSeq(LAMBDA a : IntAttr(Nodes[a], "passed"), as)
  /\ Summary.failed = SumSeq(LAMBDA a : IntAttr(Nodes[a], "failed"), as)
  /\ Summary.skipped = SumSeq(LAMBDA a : IntAttr(Nodes[a], "skipped"), as)
  /\ Summary.errors = SumSeq(LAMBDA a : IntAttr(Nodes[a], "errors"), as)
  /\ Summary.time = SumSeq(LAMBDA a : FloatAttr(Nodes[a], "time"), as)

\* C7: the xUnit counts and time are the sums of the attributes
\* of all assembly elements of the document, whatever its test elements.
C7_Claimed == Gave("xunit") => XunitSums(Tagged(Nodes, "assembly"))

\* C8: with a test-results root, total, failed and errors are the root's
\* total, failures and errors, skipped is skipped + ignored + not-run, and
\* passed is total - failed - errors - skipped, whatever test-cases there are.
C8_NunitCounts ==
  (Gave("nunit") /\ Nodes[Root].tag = "test-results") =>
    LET root == Nodes[Root]
    IN /\ Summary.total = IntAttr(root, "total")
       /\ Summary.failed = IntAttr(root, "failures")
       /\ Summary.errors = IntAttr(root, "errors")
       /\ Summary.skipped = IntAttr(root, "skipped") + IntAttr(root, "ignored")
                            + IntAttr(root, "not-run")
       /\ Summary.passed = Summary.total - Summary.failed - Summary.errors - Summary.skipped

C8_Witness ==
  /\ Gave("nunit") /\ Nodes[Root].tag = "test-results"
  /\ Summary.total = 9 /\ Summary.failed = 1 /\ Summary.errors = 2 /\ Summary.skipped = 6
  /\ Summary.passed = 0 /\ Len(Cases) = 1

NonNumericRootTime(nodes) ==
  /\ nodes[Root].tag = "test-results"
  /\ "time" \in DOMAIN nodes[Root].attrs
  /\ ~ParseFloat(nodes[Root].attrs["time"]).ok

\* Every count of the root and every test-case time is a number.
NumericElsewhere(nodes) ==
  /\ \A a \in {"total", "errors", "failures", "skipped", "ignored", "not-run"} :
       a \in DOMAIN nodes[Root].attrs => ParseInt(nodes[Root].attrs[a]).ok
  /\ \A j \in DOMAIN nodes :
       (nodes[j].tag = "test-case" /\ "time" \in DOMAIN nodes[j].attrs)
         => ParseFloat(nodes[j].attrs["time"]).ok

SuiteTime(e) ==
  IF "time" \in DOMAIN e.attrs /\ ParseFloat(e.attrs["time"]).ok
  THEN ParseFloat(e.attrs["time"]).v ELSE 0

ClaimedStatus(token) ==
  LET t == Lower(token)
  IN IF Contains(<<"s", "u", "c", "c", "e", "s", "s">>, t) \/ Contains(Pass, t) THEN Passed
     ELSE IF Contains(Fail, t) THEN Failed
     ELSE IF Contains(Error, t) THEN Error
     ELSE IF Contains(Skip, t) \/ Contains(<<"i", "g", "n", "o", "r", "e">>, t) THEN Skipped
     ELSE token

ClaimedStatuses(seen) ==
  /\ Len(Cases) = Len(seen)
  /\ \A i \in DOMAIN seen : Cases[i].result = ClaimedStatus(Get(Nodes[seen[i]], "result", Unknown))

\* C10: the status of an xUnit test and of an NUnit test-case is its raw
\* result token normalized by substring containment, ignoring case, in the
\* order success/pass, fail, error, skip/ignore; any other token is passed
\* through unchanged.
C10_Claimed ==
  /\ Gave("xunit") => ClaimedStatuses(XunitSeen(Nodes))
  /\ Gave("nunit") => ClaimedStatuses(NunitSeen(Nodes))

Canonical == {Passed, Failed, Error, Skipped}

\* C11: in every summary returned, for any dialect and document, the status
\* of every test case is one of passed, failed, error, skipped.
C11_Claimed ==
  (Returned /\ outcome.kind = "summary") =>
    \A i \in DOMAIN Cases : Cases[i].result \in Canonical

\* C12: in every summary returned, for any dialect and any document whose
\* count attributes are integers, total, passed, failed, skipped and errors
\* are all non-negative.
C12_Claimed ==
  (Returned /\ outcome.kind = "summary") =>
    /\ Summary.total >= 0 /\ Summary.passed >= 0 /\ Summary.failed >= 0
    /\ Summary.skipped >= 0 /\ Summary.errors >= 0

\* The case elements the selected adapter walks.
Seen(rt, nodes) ==
  IF rt = "junit" THEN JunitSeen(nodes)
  ELSE IF rt = "xunit" THEN XunitSeen(nodes)
  ELSE NunitSeen(nodes)

\* Every count attribute the adapters read is an integer.
CountsAreIntegers(nodes) ==
  \A j \in DOMAIN nodes :
    \A a \in {"total", "passed", "failed", "skipped", "errors", "failures",
              "ignored", "not-run"} :
      (nodes[j].tag \in {"assembly", "test-results"} /\ a \in DOMAIN nodes[j].attrs)
        => ParseInt(nodes[j].attrs[a]).ok

\* C13: a time attribute that is present but not a number is never
\* propagated as an error: the summary is returned, and the time of every
\* case is its time attribute, or 0.0 if that is missing or unparsable.
C13_Claimed ==
  (Returned /\ report_type \in Dialects /\ ResolvesToContent(test_result)
     /\ XMLParse(ContentOf(test_result)).ok /\ CountsAreIntegers(Nodes))
    => /\ outcome.kind = "summary"
       /\ LET seen == Seen(report_type, Nodes)
          IN /\ Len(Cases) = Len(seen)
             /\ \A i \in DOMAIN seen : Cases[i].time = SuiteTime(Nodes[seen[i]])

\* C19: whenever the time attribute of a test-results root parses as a
\* float, the summary's time is that value; the sum of the suite times is
\* used only when the root time fails to parse, not when it is a valid
\* number such as 0.
C19_Claimed ==
  (Gave("nunit") /\ Nodes[Root].tag = "test-results"
     /\ "time" \in DOMAIN Nodes[Root].attrs
     /\ ParseFloat(Nodes[Root].attrs["time"]).ok)
    => Summary.time = ParseFloat(Nodes[Root].attrs["time"]).v

\* The test-suite elements that are inside no other test-suite.
TopLevelSuites(nodes) ==
  SelectSeq(Below(nodes, "test-suite"),
            LAMBDA j : ~\E i \in DOMAIN nodes :
                          nodes[i].tag = "test-suite" /\ IsDesc(nodes, j, i))

\* C20: the fallback total time is the sum of the times of the top-level
\* test-suite elements only; a test-suite nested in another test-suite
\* adds nothing to it.
C20_Claimed ==
  (Gave("nunit") /\ NonNumericRootTime(Nodes))
    => Summary.time = SumSeq(LAMBDA j : SuiteTime(Nodes[j]), TopLevelSuites(Nodes))

RunFinished == pc \in {"done", "raised"}

\* C16: when no output_file is supplied, the temporary report file the call
\* made is gone when the call finishes, whether a summary is returned or an
\* exception raised; a file the caller supplied, and the parser read, is
\* still there when the call finishes.
C16_Claimed ==
  /\ (RunFinished /\ is_temp) => ~PathExists(fs, output_file)
  /\ (RunFinished /\ ~is_temp /\ XmlParsed /\ outcome.io[Len(outcome.io)].op = "ET.parse")
       => PathIsFile(fs, output_file)

\* Something is wrong with the call just made: no schema could be fetched,
\* the test file is missing, is no regular file or is not YAML, the
\* document fetched is no schema, or the file violates the schema.
ValidationFails ==
  LET content == PathEntry(fs, validation.path).content
  IN \/ schema_cache = "none"
     \/ ~PathIsFile(fs, validation.path)
     \/ ~YamlLoad(content).ok
     \/ schema_cache = "invalid"
     \/ ~Conforms(YamlLoad(content).data, schema_cache)

Matching == SelectSeq(walk.files, LAMBDA e : Matches(walk.pattern, e.name))

Parsed(e) == GetTestFromFile(PathOf(e), e.there, e.readable, e.content)

\* C18: a matching file whose parse raises is skipped and the walk goes
\* on: get_tests raises only before the walk; every matching file is
\* attempted exactly once, in walk order; and the list returned holds
\* exactly the files that parsed, in walk order.
C18_Resilient ==
  /\ pc = "walk_raised" => walk = NoWalk
  /\ pc = "listed" =>
       LET good == SelectSeq(Matching, LAMBDA e : Parsed(e).ok)
       IN /\ attempted = [i \in DOMAIN Matching |-> PathOf(Matching[i])]
          /\ test_files = [i \in DOMAIN good |-> Parsed(good[i]).file]

C18_Witness ==
  /\ pc = "listed" /\ walk.pattern = <<>> /\ Len(walk.files) = 3
  /\ ~Parsed(walk.files[2]).ok /\ Parsed(walk.files[2]).exc = "KeyError"
  /\ Len(attempted) = 3 /\ Len(test_files) = 2
  /\ test_files[1].file_path = PathOf(walk.files[1])
  /\ test_files[2].file_path = PathOf(walk.files[3])

(***************************************************************************)
(* Messages, order and multiplicity of the cases of a summary.             *)
(***************************************************************************)
\* The failure child of a case element and the message element nested in
\* it, 0 when there is none.
FailureOf(nodes, tc) == Find(nodes, tc, "failure")

MessageElemOf(nodes, tc) ==
  IF FailureOf(nodes, tc) = 0 THEN 0 ELSE Find(nodes, FailureOf(nodes, tc), "message")

Trimmed(text) == Some(Strip(text, IsSpaceChar))

JunitSuiteTimes(nodes) ==
  LET suites == JunitSuites(nodes)
  IN SumSeq(LAMBDA j : FloatAttr(nodes[j], "time"), suites)

\* C22: the total time of a JUnit summary is the time attribute of a
\* top-level testsuites element whenever that attribute is present, no
\* suite time being added; otherwise it is the sum of the time attributes
\* of the suite elements processed.
C22_Claimed ==
  Gave("junit") =>
    Summary.time = IF Nodes[Root].tag = "testsuites" /\ "time" \in DOMAIN Nodes[Root].attrs
                   THEN FloatAttr(Nodes[Root], "time")
                   ELSE JunitSuiteTimes(Nodes)

\* C22 (amended): the same, the root's attribute deciding whenever it is
\* present and not empty.
C22_RootTimeNotEmpty ==
  Gave("junit") =>
    Summary.time = IF Nodes[Root].tag = "testsuites" /\ Truthy(Nodes[Root], "time")
                   THEN FloatAttr(Nodes[Root], "time")
                   ELSE JunitSuiteTimes(Nodes)

C22_Witness ==
  /\ Gave("junit") /\ Nodes[Root].tag = "testsuites"
  /\ Get(Nodes[Root], "time", <<>>) = <<"2">>
  /\ Len(JunitSuites(Nodes)) = 2 /\ JunitSuiteTimes(Nodes) = 50
  /\ Summary.time = 200

\* The child of a JUnit testcase that decides its status, 0 for a passed one.
DecidingChild(nodes, tc) ==
  JunitDecider(Find(nodes, tc, "failure"), Find(nodes, tc, "error"),
               Find(nodes, tc, "skipped"))

\* C23: the message of a failed, error or skipped JUnit case is the message
\* attribute of the deciding child when that attribute is present, and the
\* child's own text otherwise, trimmed; there is no message when neither is
\* supplied, and a passed case has none.
C23_Claimed ==
  Gave("junit") =>
    LET seen == JunitSeen(Nodes)
    IN /\ Len(Cases) = Len(seen)
       /\ \A i \in DOMAIN seen :
            LET child == DecidingChild(Nodes, seen[i])
                message == Cases[i].message
            IN IF child = 0 THEN message = None
               ELSE IF "message" \in DOMAIN Nodes[child].attrs
               THEN \/ message = Trimmed(Nodes[child].attrs["message"])
                    \/ Nodes[child].attrs["message"] = <<>> /\ message = None
               ELSE IF Nodes[child].text # <<>>
               THEN message = Trimmed(Nodes[child].text)
               ELSE message = None

\* C23 (amended): the same, the message attribute being taken when it is
\* present and not empty, and the child's text otherwise.
C23_AttrNotEmpty ==
  Gave("junit") =>
    LET seen == JunitSeen(Nodes)
    IN /\ Len(Cases) = Len(seen)
       /\ \A i \in DOMAIN seen :
            LET child == DecidingChild(Nodes, seen[i])
                message == Cases[i].message
            IN IF child = 0 THEN message = None
               ELSE IF Truthy(Nodes[child], "message")
               THEN message = Trimmed(Nodes[child].attrs["message"])
               ELSE IF Nodes[child].text # <<>>
               THEN message = Trimmed(Nodes[child].text)
               ELSE message = None

C23_Witness ==
  /\ Gave("junit") /\ Len(Cases) = 1
  /\ DecidingChild(Nodes, JunitSeen(Nodes)[1]) # 0
  /\ Nodes[DecidingChild(Nodes, JunitSeen(Nodes)[1])].tag = "error"
  /\ Get(Nodes[DecidingChild(Nodes, JunitSeen(Nodes)[1])], "message", Absent) = <<>>
  /\ Nodes[DecidingChild(Nodes, JunitSeen(Nodes)[1])].text = <<" ", "b", " ">>
  /\ Cases[1].message = Some(<<"b">>)

\* The name an adapter gives a case element.
CaseName(rt, e) == Get(e, "name", IF rt = "xunit" THEN UnknownTest ELSE Unknown)

\* The case elements come one after another in the document.
InDocumentOrder(seen) ==
  \A i, j \in DOMAIN seen : i < j => seen[i] <= seen[j]

\* C24: in the three dialects the test_cases of a summary are in the order
\* in which their case elements occur in the document, across all suites
\* and assemblies, suites nested inside other suites included.
C24_Claimed ==
  \A rt \in Dialects :
    Gave(rt) =>
      LET seen == Seen(rt, Nodes)
      IN /\ Len(Cases) = Len(seen)
         /\ \A i \in DOMAIN seen : Cases[i].name = CaseName(rt, Nodes[seen[i]])
         /\ InDocumentOrder(seen)

\* No case element is walked twice.
EachOnce(seen) == \A i, j \in DOMAIN seen : seen[i] = seen[j] => i = j

\* C25: in the three dialects a parse call makes exactly one case result
\* for each case element the adapter reaches; no element of the document
\* gives two entries of test_cases, also when suites, assemblies or
\* collections are nested inside one another.
C25_Claimed ==
  \A rt \in Dialects :
    Gave(rt) =>
      LET seen == Seen(rt, Nodes)
      IN /\ Len(Cases) = Len(seen)
         /\ \A i \in DOMAIN seen : Cases[i].name = CaseName(rt, Nodes[seen[i]])
         /\ EachOnce(seen)

\* C26: in every summary of the three dialects a case has a message only
\* when its status is failed, error or skipped; a passed case never has
\* one, even when its element has a failure child.
C26_Claimed ==
  \A rt \in Dialects :
    Gave(rt) =>
      \A i \in DOMAIN Cases :
        Cases[i].message # None => Cases[i].result \in {Failed, Error, Skipped}

\* The call parsed a well-formed document.
WellFormed == ResolvesToContent(test_result) /\ XMLParse(ContentOf(test_result)).ok

\* C30: the NUnit adapter, given a well-formed document whose root is not
\* test-results, raises nothing and returns a summary whose counts are all
\* 0, whose time is 0.0 and whose test_cases is empty, whatever test-suite
\* and test-case elements the document contains.
C30_OtherRootIsEmpty ==
  (Returned /\ report_type = "nunit" /\ WellFormed /\ Nodes[Root].tag # "test-results")
    => /\ outcome.kind = "summary"
       /\ Summary.total = 0 /\ Summary.passed = 0 /\ Summary.failed = 0
       /\ Summary.skipped = 0 /\ Summary.errors = 0
       /\ Summary.time = 0
       /\ Summary.test_cases = <<>>

C30_Witness ==
  /\ Returned /\ report_type = "nunit" /\ WellFormed
  /\ Nodes[Root].tag = "test-run"
  /\ Get(Nodes[Root], "total", Zero) = <<"2">>
  /\ Get(Nodes[Root], "time", Zero) = <<"2", ".", "0">>
  /\ Len(Tagged(Nodes, "test-suite")) = 3
  /\ Len(Tagged(Nodes, "test-case")) = 3
  /\ outcome.kind = "summary" /\ Summary.total = 0 /\ Summary.test_cases = <<>>

\* A step in which validate_schema runs.
ValidateStep == pc = "idle" /\ pc' = "validated"

\* C29: once _get_schema has succeeded, every later call reuses the cached
\* schema and sends no request to the network; a fetch that raises leaves
\* nothing in the cache, so that the next call fetches again.
C29_SchemaCached ==
  [][/\ schema_cache # "none" => schema_cache' = schema_cache
     /\ (ValidateStep /\ schema_cache # "none") => ~requested'
     /\ (ValidateStep /\ schema_cache = "none")
          => /\ requested'
             /\ schema_cache' = "none" <=> network \in Unreachable]_vars

C29_Witness ==
  /\ pc = "validated" /\ schema_cache = "suite" /\ network = "down"
  /\ ~requested /\ validation.success

\* The threads to which a call of Server() has returned.
Holders == {t \in Threads : threads[t].result # 0}

\* C28: Server is one object for the whole process, whatever the
\* interleaving of the threads that call Server(): every call returns the
\* same instance, one FastMCP is made and no more, and the instance a call
\* has returned has its _mcp set.
C28_Singleton ==
  /\ fastmcps <= 1
  /\ Len(servers) <= 1
  /\ \A t \in Holders :
       /\ threads[t].result = _instance
       /\ servers[threads[t].result]._mcp # 0
       /\ fastmcps = 1
  /\ \A t, u \in Holders : threads[t].result = threads[u].result

C28_Witness ==
  /\ threads[1].result = 1 /\ At(1, "idle")
  /\ At(2, "init_recheck") /\ _lock = 2 /\ _initialized
  /\ servers[1]._mcp = 1

\* What the caller of a finished call holds: the exception, or the summary
\* with the list its test_cases refers to.
Held(t) ==
  IF calls[t].outcome.kind # "summary" THEN calls[t].outcome
  ELSE [calls[t].outcome EXCEPT !.summary.test_cases = lists[calls[t].test_cases]]

Finished == {t \in Callers : calls[t].pc = "done"}

\* C27: calls of parse on one parser are independent under every
\* interleaving: each returns what it would return alone, parse leaves the
\* format selector unchanged, and no two summaries returned share their
\* test_cases list.
C27_Independent ==
  [][/\ report_type' = report_type
     /\ \A t \in Callers :
          calls'[t].pc = "done"
            => calls'[t].outcome.kind = Parse(report_type, fs, calls'[t].test_result).kind
     /\ \A t \in Callers :
          (calls'[t].pc = "done" /\ calls'[t].outcome.kind = "summary")
            => /\ [calls'[t].outcome.summary EXCEPT !.test_cases = lists'[calls'[t].test_cases]]
                    = Parse(report_type, fs, calls'[t].test_result).summary
               /\ \A u \in Callers \ {t} :
                    (calls'[u].pc \in {"loop", "done"})
                      => calls'[u].test_cases # calls'[t].test_cases]_vars

C27_Witness ==
  /\ Finished = {1} /\ calls[1].test_result = Both /\ Held(1).kind = "summary"
  /\ Len(Held(1).summary.test_cases) = 4
  /\ calls[2].pc = "loop" /\ calls[2].test_result = Both
  /\ Len(calls[2].todo) = 1 /\ Len(lists[calls[2].test_cases]) = 2
  /\ calls[1].test_cases # calls[2].test_cases

====
